---------------------------- MODULE Spec2Model ----------------------------
(***************************************************************************)
(* Dialogue pipeline of the library chatbot: the keyword intent            *)
(* classifier (nlp_engine.py), the rule matcher (rule_engine.py), the      *)
(* response generator (response_generator.py) and the dialogue manager     *)
(* with its Redis context store (dialog_manager.py).                       *)
(*                                                                         *)
(* Conventions.  A Python str that the code inspects character by          *)
(* character (messages, keywords, pattern literals, ids) is a sequence of  *)
(* one-character strings.  A confidence is an integer number of            *)
(* hundredths (0.3 is 30, 0.95 is 95); every comparison the code makes is  *)
(* between values that are exact multiples of 0.05 up to float rounding    *)
(* that never crosses a threshold.  A response text is a sequence of       *)
(* segments, literal text or a {placeholder}.  Python's None is the empty      *)
(* sequence and any other optional value x is << x >>.                     *)
(***************************************************************************)
EXTENDS Integers, Sequences, FiniteSets, TLC

VARIABLES
  store,              \* Redis: context key -> stored context, or None
  templates,          \* ResponseGenerator.templates
  spacy_nlp,          \* HybridNLPEngine.spacy_nlp is loaded (TRUE) or None (FALSE)
  compiled_patterns,  \* AdvancedRuleEngine.compiled_patterns
  turns,              \* per context key: the turns begun so far and the last intent
  result,             \* outcome of the last process_message call
  matchResult,        \* outcome of the last direct AdvancedRuleEngine.match call
  lowResult,          \* outcome of the last direct _handle_low_confidence call
  engine,             \* outcome of AdvancedRuleEngine(rules_file), and the file it read
  callResult,         \* outcome of the last direct call of a rendering function
  now,                \* the time of the Redis server, in seconds
  expiry,             \* context key -> the time at which Redis drops the key
  inflight            \* the calls of process_message under way, step by step

vars == << store, templates, spacy_nlp, compiled_patterns, turns, result,
           matchResult, lowResult, engine, callResult, now, expiry, inflight >>

(***************************************************************************)
(* Bounds of the model.                                                    *)
(***************************************************************************)
\* calls of process_message in one behaviour, over all conversations
MaxTurns == 2
\* rules in the rule set given to a direct call of match
MaxRules == 2
\* entries of the context dict given to a direct call of match
MaxCtxKeys == 5
\* the longest template, in segments (words, spaces, placeholders), that the
\* rendering functions are called on
MaxSegs == 3
\* the longest text, in characters, that the sanitizer is called on
MaxText == 3
\* the time at which the clock of the Redis server stops, in seconds
MaxClock == 7200
\* the calls of process_message that may be under way at once
MaxCalls == 2
\* the longest text, in words, that the extractor is called on directly
MaxWords == 3

(***************************************************************************)
(* Python str operations on character sequences.                           *)
(***************************************************************************)
UpperChars == <<"A", "B", "C", "D", "E", "F", "G", "H", "I", "J", "K", "L", "M", "N", "O", "P", "Q", "R", "S", "T", "U", "V", "W", "X", "Y", "Z">>
LowerChars == <<"a", "b", "c", "d", "e", "f", "g", "h", "i", "j", "k", "l", "m", "n", "o", "p", "q", "r", "s", "t", "u", "v", "w", "x", "y", "z">>

LowerChar(c) ==
  IF \E i \in 1..26 : UpperChars[i] = c
  THEN LowerChars[CHOOSE i \in 1..26 : UpperChars[i] = c]
  ELSE c

\* str.lower()
RECURSIVE Lower(_)
Lower(s) ==
  IF s = << >> THEN << >> ELSE << LowerChar(Head(s)) >> \o Lower(Tail(s))

IsSpace(c) == c \in {" ", "\t", "\n", "\r"}

\* str.strip()
Strip(s) ==
  IF \A i \in 1..Len(s) : IsSpace(s[i])
  THEN << >>
  ELSE LET a == CHOOSE i \in 1..Len(s) :
                  ~IsSpace(s[i]) /\ \A j \in 1..(i-1) : IsSpace(s[j])
           b == CHOOSE i \in 1..Len(s) :
                  ~IsSpace(s[i]) /\ \A j \in (i+1)..Len(s) : IsSpace(s[j])
       IN  SubSeq(s, a, b)

\* s[i:] starts with kw
StartsAt(s, i, kw) ==
  /\ i + Len(kw) - 1 <= Len(s)
  /\ \A j \in 1..Len(kw) : s[i + j - 1] = kw[j]

\* `kw in s`
Contains(s, kw) == \E i \in 1..(Len(s) + 1) : StartsAt(s, i, kw)

\* any(word in s for word in words)
ContainsAny(s, words) == \E k \in 1..Len(words) : Contains(s, words[k])

(***************************************************************************)
(* The messages a caller sends (the bounded input set).                    *)
(***************************************************************************)
MsgBlank == <<" ">>
MsgNonsense == <<"a", "s", "d", "k", "f", "j", " ", "r", "a", "n", "d", "o", "m", " ", "n", "o", "n", "s", "e", "n", "s", "e">>
MsgSchedule == <<"s", "c", "h", "e", "d", "u", "l", "e">>
MsgFind == <<"f", "i", "n", "d", " ", "a", " ", "b", "o", "o", "k">>
MsgHello == <<"h", "e", "l", "l", "o">>
MsgHours == <<"W", "h", "a", "t", " ", "a", "r", "e", " ", "t", "h", "e", " ", "l", "i", "b", "r", "a", "r", "y", " ", "h", "o", "u", "r", "s", "?">>
MsgPolicy == <<"l", "o", "a", "n", " ", "f", "i", "n", "e", " ", "l", "i", "m", "i", "t", " ", "p", "o", "l", "i", "c", "y">>

Messages == { MsgBlank, MsgNonsense, MsgSchedule, MsgFind, MsgHello, MsgHours,
              MsgPolicy }

UserIds == { <<"u", "1">>, <<"u", "2">> }
SessionIds == { <<"s", "1">> }

(***************************************************************************)
(* nlp_engine.py: HybridNLPEngine                                          *)
(***************************************************************************)
\* self.intent_examples = self.library_intents, in the dict's insertion order
intent_examples ==
  << [intent |-> "book_search", keywords |->
        << <<"f", "i", "n", "d">>,
           <<"s", "e", "a", "r", "c", "h">>,
           <<"l", "o", "c", "a", "t", "e">>,
           <<"b", "o", "o", "k">>,
           <<"t", "e", "x", "t", "b", "o", "o", "k">> >>],
     [intent |-> "library_hours", keywords |->
        << <<"h", "o", "u", "r">>,
           <<"o", "p", "e", "n">>,
           <<"c", "l", "o", "s", "e">>,
           <<"s", "c", "h", "e", "d", "u", "l", "e">>,
           <<"t", "i", "m", "e">> >>],
     [intent |-> "book_availability", keywords |->
        << <<"a", "v", "a", "i", "l", "a", "b", "l", "e">>,
           <<"a", "v", "a", "i", "l", "a", "b", "i", "l", "i", "t", "y">>,
           <<"i", "n", " ", "s", "t", "o", "c", "k">>,
           <<"o", "n", " ", "s", "h", "e", "l", "f">> >>],
     [intent |-> "book_renewal", keywords |->
        << <<"r", "e", "n", "e", "w">>,
           <<"e", "x", "t", "e", "n", "s", "i", "o", "n">>,
           <<"p", "r", "o", "l", "o", "n", "g">> >>],
     [intent |-> "book_reservation", keywords |->
        << <<"r", "e", "s", "e", "r", "v", "e">>,
           <<"h", "o", "l", "d">>,
           <<"b", "o", "o", "k", "i", "n", "g">> >>],
     [intent |-> "borrowing_policy", keywords |->
        << <<"p", "o", "l", "i", "c", "y">>,
           <<"r", "u", "l", "e">>,
           <<"l", "i", "m", "i", "t">>,
           <<"f", "i", "n", "e">>,
           <<"h", "o", "w", " ", "m", "a", "n", "y">>,
           <<"h", "o", "w", " ", "l", "o", "n", "g">> >>],
     [intent |-> "contact_info", keywords |->
        << <<"c", "o", "n", "t", "a", "c", "t">>,
           <<"p", "h", "o", "n", "e">>,
           <<"e", "m", "a", "i", "l">>,
           <<"c", "a", "l", "l">>,
           <<"a", "d", "d", "r", "e", "s", "s">>,
           <<"d", "e", "p", "a", "r", "t", "m", "e", "n", "t">> >>],
     [intent |-> "research_assistance", keywords |->
        << <<"r", "e", "s", "e", "a", "r", "c", "h">>,
           <<"j", "o", "u", "r", "n", "a", "l">>,
           <<"a", "r", "t", "i", "c", "l", "e">>,
           <<"d", "a", "t", "a", "b", "a", "s", "e">>,
           <<"c", "i", "t", "a", "t", "i", "o", "n">>,
           <<"p", "a", "p", "e", "r">>,
           <<"l", "i", "t", "e", "r", "a", "t", "u", "r", "e">> >>],
     [intent |-> "study_rooms", keywords |->
        << <<"s", "t", "u", "d", "y", " ", "r", "o", "o", "m">>,
           <<"b", "o", "o", "k", "i", "n", "g", " ", "s", "p", "a", "c", "e">>,
           <<"r", "e", "s", "e", "r", "v", "e", " ", "r", "o", "o", "m">> >>],
     [intent |-> "library_services", keywords |->
        << <<"p", "r", "i", "n", "t", "i", "n", "g">>,
           <<"s", "c", "a", "n", "n", "i", "n", "g">>,
           <<"w", "o", "r", "k", "s", "h", "o", "p">>,
           <<"s", "e", "r", "v", "i", "c", "e">> >>],
     [intent |-> "greeting", keywords |->
        << <<"h", "e", "l", "l", "o">>,
           <<"h", "i">>,
           <<"h", "e", "y">>,
           <<"g", "r", "e", "e", "t", "i", "n", "g", "s">>,
           <<"m", "o", "r", "n", "i", "n", "g">>,
           <<"a", "f", "t", "e", "r", "n", "o", "o", "n">>,
           <<"e", "v", "e", "n", "i", "n", "g">> >>],
     [intent |-> "farewell", keywords |->
        << <<"b", "y", "e">>,
           <<"g", "o", "o", "d", "b", "y", "e">>,
           <<"t", "h", "a", "n", "k">>,
           <<"t", "h", "a", "n", "k", "s">> >>] >>

\* a score of +0.3 per contained keyword
KeywordScoreThirty(text_lower, keywords) ==
  30 * Cardinality({ k \in 1..Len(keywords) : Contains(text_lower, keywords[k]) })

\* score accumulated by the inner loop, lines 378-381: +0.4 per contained keyword
KeywordScore(text_lower, keywords) ==
  40 * Cardinality({ k \in 1..Len(keywords) : Contains(text_lower, keywords[k]) })

\* the loop of lines 377-385 from intent i on: << best_intent, max_score >>
RECURSIVE ClassifyLoop(_, _, _, _)
ClassifyLoop(text_lower, i, best_intent, max_score) ==
  IF i > Len(intent_examples)
  THEN << best_intent, max_score >>
  ELSE LET score == KeywordScore(text_lower, intent_examples[i].keywords)
       IN  IF score > max_score
           THEN ClassifyLoop(text_lower, i + 1, intent_examples[i].intent, score)
           ELSE ClassifyLoop(text_lower, i + 1, best_intent, max_score)

\* max(a, b) and min(a, b)
Max2(a, b) == IF a >= b THEN a ELSE b
\* a min that does not clamp
MinUnclamped(a, b) == a
Min2(a, b) == IF a <= b THEN a ELSE b

HourWords == << <<"h", "o", "u", "r">>, <<"o", "p", "e", "n">>, <<"c", "l", "o", "s", "e">>, <<"t", "i", "m", "e">> >>
BookWords == << <<"b", "o", "o", "k">>, <<"f", "i", "n", "d">>, <<"s", "e", "a", "r", "c", "h">> >>
RenewWords == << <<"r", "e", "n", "e", "w">> >>
ReserveWords == << <<"r", "e", "s", "e", "r", "v", "e">>, <<"h", "o", "l", "d">> >>
ContactWords == << <<"c", "o", "n", "t", "a", "c", "t">>, <<"p", "h", "o", "n", "e">>, <<"e", "m", "a", "i", "l">> >>
ResearchWords == << <<"r", "e", "s", "e", "a", "r", "c", "h">>, <<"c", "i", "t", "a", "t", "i", "o", "n">>, <<"p", "a", "p", "e", "r">> >>
GreetingWords ==
  << <<"h", "e", "l", "l", "o">>,
     <<"h", "i">>,
     <<"h", "e", "y">>,
     <<"g", "r", "e", "e", "t", "i", "n", "g">>,
     <<"m", "o", "r", "n", "i", "n", "g">>,
     <<"a", "f", "t", "e", "r", "n", "o", "o", "n">>,
     <<"e", "v", "e", "n", "i", "n", "g">> >>

\* the overrides without the one for "renew"
OverridesSkippingRenew(t, loop) ==
  LET hour == ContainsAny(t, HourWords)
      book == ContainsAny(t, BookWords)
      b1 == IF hour THEN << "library_hours", Max2(loop[2], 85) >> ELSE loop
      b2 == IF book THEN << "book_search", Max2(b1[2], 80) >> ELSE b1
  IN  IF hour /\ Contains(t, <<"l", "i", "b", "r", "a", "r", "y", " ", "h", "o", "u", "r">>) THEN << "library_hours", 95 >>
      ELSE IF book /\ Contains(t, <<"a", "v", "a", "i", "l", "a", "b", "l", "e">>) THEN << "book_availability", 90 >>
      ELSE IF ContainsAny(t, ReserveWords) THEN << "book_reservation", 90 >>
      ELSE IF ContainsAny(t, ContactWords) THEN << "contact_info", 90 >>
      ELSE IF ContainsAny(t, ResearchWords) THEN << "research_assistance", 85 >>
      ELSE IF ContainsAny(t, GreetingWords) THEN << "greeting", 90 >>
      ELSE << b2[1], Min2(b2[2], 95) >>

\* the overrides of lines 387-406, given the loop's << best_intent, max_score >>
Overrides(t, loop) ==
  LET hour == ContainsAny(t, HourWords)
      book == ContainsAny(t, BookWords)
      \* lines 388-390
      b1 == IF hour THEN << "library_hours", Max2(loop[2], 85) >> ELSE loop
      \* lines 392-394
      b2 == IF book THEN << "book_search", Max2(b1[2], 80) >> ELSE b1
  IN  IF hour /\ Contains(t, <<"l", "i", "b", "r", "a", "r", "y", " ", "h", "o", "u", "r">>) THEN << "library_hours", 95 >>
      ELSE IF book /\ Contains(t, <<"a", "v", "a", "i", "l", "a", "b", "l", "e">>) THEN << "book_availability", 90 >>
      ELSE IF ContainsAny(t, RenewWords) THEN << "book_renewal", 90 >>
      ELSE IF ContainsAny(t, ReserveWords) THEN << "book_reservation", 90 >>
      ELSE IF ContainsAny(t, ContactWords) THEN << "contact_info", 90 >>
      ELSE IF ContainsAny(t, ResearchWords) THEN << "research_assistance", 85 >>
      ELSE IF ContainsAny(t, GreetingWords) THEN << "greeting", 90 >>
      ELSE << b2[1], Min2(b2[2], 95) >>

\* _classify_intent_simple(text): << intent, confidence >>
ClassifyIntentSimple(text) ==
  IF text = << >>
  THEN << "unknown", 0 >>
  ELSE LET t == Lower(text)
       IN  Overrides(t, ClassifyLoop(t, 1, "unknown", 30))

PositiveWords ==
  << <<"g", "o", "o", "d">>,
     <<"g", "r", "e", "a", "t">>,
     <<"e", "x", "c", "e", "l", "l", "e", "n", "t">>,
     <<"t", "h", "a", "n", "k">>,
     <<"t", "h", "a", "n", "k", "s">>,
     <<"h", "e", "l", "p", "f", "u", "l">>,
     <<"n", "i", "c", "e">> >>
NegativeWords ==
  << <<"b", "a", "d">>,
     <<"p", "o", "o", "r">>,
     <<"t", "e", "r", "r", "i", "b", "l", "e">>,
     <<"w", "r", "o", "n", "g">>,
     <<"i", "n", "c", "o", "r", "r", "e", "c", "t">>,
     <<"p", "r", "o", "b", "l", "e", "m">> >>

\* _analyze_sentiment(text)
AnalyzeSentiment(text) ==
  LET pos == Cardinality({ k \in 1..Len(PositiveWords) : Contains(text, PositiveWords[k]) })
      neg == Cardinality({ k \in 1..Len(NegativeWords) : Contains(text, NegativeWords[k]) })
  IN  IF pos > neg THEN "positive" ELSE IF neg > pos THEN "negative" ELSE "neutral"

\* The patterns of _extract_custom_entities that are alternations of literals,
\* in the order of the merged dict.  The other five (book_title, author, isbn,
\* duration, time) need a quote, "by ", "isbn" or a digit, which no message of
\* the bounded set holds.
CustomPatterns ==
  << [type |-> "genre", alts |->
        << <<"f", "i", "c", "t", "i", "o", "n">>,
           <<"n", "o", "n", "-", "f", "i", "c", "t", "i", "o", "n">>,
           <<"s", "c", "i", "e", "n", "c", "e", " ", "f", "i", "c", "t", "i", "o", "n">>,
           <<"f", "a", "n", "t", "a", "s", "y">>,
           <<"m", "y", "s", "t", "e", "r", "y">>,
           <<"b", "i", "o", "g", "r", "a", "p", "h", "y">>,
           <<"t", "e", "x", "t", "b", "o", "o", "k">> >>],
     [type |-> "library_section", alts |->
        << <<"r", "e", "f", "e", "r", "e", "n", "c", "e">>,
           <<"c", "i", "r", "c", "u", "l", "a", "t", "i", "o", "n">>,
           <<"p", "e", "r", "i", "o", "d", "i", "c", "a", "l", "s">>,
           <<"a", "r", "c", "h", "i", "v", "e", "s">>,
           <<"d", "i", "g", "i", "t", "a", "l", " ", "l", "a", "b">> >>],
     [type |-> "service", alts |->
        << <<"b", "o", "r", "r", "o", "w">>,
           <<"r", "e", "t", "u", "r", "n">>,
           <<"r", "e", "n", "e", "w">>,
           <<"r", "e", "s", "e", "r", "v", "e">>,
           <<"i", "n", "t", "e", "r", "l", "i", "b", "r", "a", "r", "y", " ", "l", "o", "a", "n">> >>] >>

\* re.finditer of an alternation of literals from position i: the leftmost
\* match, the first alternative that matches there, then on after its end
RECURSIVE FindAll(_, _, _, _)
FindAll(text, i, type, alts) ==
  IF i > Len(text)
  THEN << >>
  ELSE IF \E k \in 1..Len(alts) : StartsAt(text, i, alts[k])
       THEN LET k == CHOOSE k \in 1..Len(alts) :
                       /\ StartsAt(text, i, alts[k])
                       /\ \A j \in 1..(k-1) : ~StartsAt(text, i, alts[j])
            IN  << [type |-> type, value |-> alts[k]] >>
                  \o FindAll(text, i + Len(alts[k]), type, alts)
       ELSE FindAll(text, i + 1, type, alts)

\* _extract_custom_entities(text), re.IGNORECASE
RECURSIVE ExtractCustomEntities(_, _)
ExtractCustomEntities(text, p) ==
  IF p > Len(CustomPatterns)
  THEN << >>
  ELSE FindAll(Lower(text), 1, CustomPatterns[p].type, CustomPatterns[p].alts)
         \o ExtractCustomEntities(text, p + 1)

\* process(text).  With spacy_nlp None, doc is None and _extract_entities
\* raises AttributeError on doc.ents (line 110).  With the model loaded the
\* entities are doc.ents (none for the bounded messages) and the custom ones.
\* keywords and tokens come from spaCy's tokenizer and are read by nothing
\* downstream; they are left out of the record.
Process(text, spacy) ==
  LET t == Strip(Lower(text))
      c == ClassifyIntentSimple(t)
  IN  IF ~spacy
      THEN [ok |-> FALSE, error |-> "AttributeError"]
      ELSE [ok |-> TRUE,
            value |-> [text |-> t, original_text |-> t, intent |-> c[1],
                       confidence |-> c[2],
                       entities |-> ExtractCustomEntities(t, 1),
                       sentiment |-> AnalyzeSentiment(t), processed |-> TRUE]]

\* process over the bounded messages, computed once
ProcessMemo ==
  [m \in Messages |-> [spacy \in BOOLEAN |-> Process(m, spacy)]]

(***************************************************************************)
(* rule_engine.py: AdvancedRuleEngine                                      *)
(***************************************************************************)
\* app/data/rules.json as encode.py writes it.  A pattern "(?i)(a|b\s*c)" is
\* its alternatives, each the literals that \s* separates ("hours?" searches
\* as "hour").  tokens is len(pattern.split()) and wildcard is '*' in pattern,
\* of the pattern's source text.
rules_file ==
  << [id |-> "rule_001", priority |-> 1, response |-> "response_001",
      tokens |-> 1, wildcard |-> FALSE, pattern |->
         << <<<<"l", "i", "b", "r", "a", "r", "y">>>>,
            <<<<"o", "p", "e", "n", "i", "n", "g">>>>,
            <<<<"c", "l", "o", "s", "e">>>>,
            <<<<"h", "o", "u", "r">>>>,
            <<<<"s", "c", "h", "e", "d", "u", "l", "e">>>> >>],
     [id |-> "rule_002", priority |-> 1, response |-> "response_002",
      tokens |-> 1, wildcard |-> TRUE, pattern |->
         << <<<<"b", "o", "r", "r", "o", "w">>>>,
            <<<<"l", "o", "a", "n">>>>,
            <<<<"c", "h", "e", "c", "k">>, <<"o", "u", "t">>>>,
            <<<<"t", "a", "k", "e">>, <<"o", "u", "t">>>> >>],
     [id |-> "rule_003", priority |-> 1, response |-> "response_003",
      tokens |-> 1, wildcard |-> FALSE, pattern |->
         << <<<<"r", "e", "t", "u", "r", "n">>>>,
            <<<<"d", "u", "e">>>>,
            <<<<"l", "a", "t", "e">>>>,
            <<<<"f", "i", "n", "e">>>>,
            <<<<"o", "v", "e", "r", "d", "u", "e">>>> >>],
     [id |-> "rule_004", priority |-> 1, response |-> "response_004",
      tokens |-> 1, wildcard |-> FALSE, pattern |->
         << <<<<"c", "o", "n", "t", "a", "c", "t">>>>,
            <<<<"p", "h", "o", "n", "e">>>>,
            <<<<"e", "m", "a", "i", "l">>>>,
            <<<<"a", "d", "d", "r", "e", "s", "s">>>>,
            <<<<"l", "o", "c", "a", "t", "i", "o", "n">>>> >>],
     [id |-> "rule_005", priority |-> 2, response |-> "response_005",
      tokens |-> 1, wildcard |-> FALSE, pattern |->
         << <<<<"w", "i", "f", "i">>>>,
            <<<<"i", "n", "t", "e", "r", "n", "e", "t">>>>,
            <<<<"w", "i", "r", "e", "l", "e", "s", "s">>>>,
            <<<<"c", "o", "n", "n", "e", "c", "t", "i", "o", "n">>>> >>],
     [id |-> "rule_006", priority |-> 2, response |-> "response_006",
      tokens |-> 1, wildcard |-> FALSE, pattern |->
         << <<<<"p", "r", "i", "n", "t">>>>,
            <<<<"p", "r", "i", "n", "t", "i", "n", "g">>>>,
            <<<<"p", "r", "i", "n", "t", "e", "r">>>>,
            <<<<"p", "h", "o", "t", "o", "c", "o", "p", "y">>>> >>],
     [id |-> "rule_007", priority |-> 2, response |-> "response_007",
      tokens |-> 1, wildcard |-> TRUE, pattern |->
         << <<<<"q", "u", "i", "e", "t">>>>,
            <<<<"s", "i", "l", "e", "n", "t">>>>,
            <<<<"s", "t", "u", "d", "y">>, <<"a", "r", "e", "a">>>>,
            <<<<"n", "o", "i", "s", "e">>>> >>],
     [id |-> "rule_008", priority |-> 2, response |-> "response_008",
      tokens |-> 1, wildcard |-> FALSE, pattern |->
         << <<<<"d", "a", "t", "a", "b", "a", "s", "e">>>>,
            <<<<"j", "o", "u", "r", "n", "a", "l">>>>,
            <<<<"a", "r", "t", "i", "c", "l", "e">>>>,
            <<<<"r", "e", "s", "e", "a", "r", "c", "h">>>> >>],
     [id |-> "rule_009", priority |-> 3, response |-> "response_009",
      tokens |-> 1, wildcard |-> TRUE, pattern |->
         << <<<<"h", "e", "l", "l", "o">>>>,
            <<<<"h", "i">>>>,
            <<<<"h", "e", "y">>>>,
            <<<<"g", "r", "e", "e", "t", "i", "n", "g", "s">>>>,
            <<<<"g", "o", "o", "d">>, <<"m", "o", "r", "n", "i", "n", "g">>>>,
            <<<<"g", "o", "o", "d">>, <<"a", "f", "t", "e", "r", "n", "o", "o", "n">>>>,
            <<<<"g", "o", "o", "d">>, <<"e", "v", "e", "n", "i", "n", "g">>>> >>],
     [id |-> "rule_010", priority |-> 3, response |-> "response_010",
      tokens |-> 1, wildcard |-> FALSE, pattern |->
         << <<<<"t", "h", "a", "n", "k">>>>,
            <<<<"t", "h", "a", "n", "k", "s">>>>,
            <<<<"a", "p", "p", "r", "e", "c", "i", "a", "t", "e">>>>,
            <<<<"g", "r", "a", "t", "e", "f", "u", "l">>>> >>],
     [id |-> "rule_011", priority |-> 3, response |-> "response_011",
      tokens |-> 1, wildcard |-> TRUE, pattern |->
         << <<<<"b", "y", "e">>>>,
            <<<<"g", "o", "o", "d", "b", "y", "e">>>>,
            <<<<"s", "e", "e">>, <<"y", "o", "u">>>>,
            <<<<"f", "a", "r", "e", "w", "e", "l", "l">>>> >>],
     [id |-> "rule_012", priority |-> 2, response |-> "response_012",
      tokens |-> 1, wildcard |-> TRUE, pattern |->
         << <<<<"m", "e", "m", "b", "e", "r", "s", "h", "i", "p">>>>,
            <<<<"r", "e", "g", "i", "s", "t", "e", "r">>>>,
            <<<<"s", "i", "g", "n">>, <<"u", "p">>>>,
            <<<<"l", "i", "b", "r", "a", "r", "y">>, <<"c", "a", "r", "d">>>> >>],
     [id |-> "rule_013", priority |-> 2, response |-> "response_013",
      tokens |-> 1, wildcard |-> TRUE, pattern |->
         << <<<<"r", "e", "s", "e", "r", "v", "e">>>>,
            <<<<"h", "o", "l", "d">>>>,
            <<<<"b", "o", "o", "k">>, <<"a">>, <<"b", "o", "o", "k">>>>,
            <<<<"r", "e", "q", "u", "e", "s", "t">>>> >>],
     [id |-> "rule_014", priority |-> 2, response |-> "response_014",
      tokens |-> 1, wildcard |-> TRUE, pattern |->
         << <<<<"f", "i", "n", "d">>>>,
            <<<<"l", "o", "c", "a", "t", "e">>>>,
            <<<<"w", "h", "e", "r", "e">>, <<"i", "s">>>>,
            <<<<"s", "h", "e", "l", "f">>>>,
            <<<<"l", "o", "c", "a", "t", "i", "o", "n">>, <<"o", "f">>>> >>],
     [id |-> "rule_015", priority |-> 2, response |-> "response_015",
      tokens |-> 1, wildcard |-> TRUE, pattern |->
         << <<<<"l", "i", "b", "r", "a", "r", "i", "a", "n">>>>,
            <<<<"s", "t", "a", "f", "f">>>>,
            <<<<"h", "e", "l", "p">>, <<"d", "e", "s", "k">>>>,
            <<<<"a", "s", "s", "i", "s", "t", "a", "n", "c", "e">>>> >>] >>

\* an Optional value: None, or Some(x)
NoneVal == << >>
Some(x) == << x >>
IsNone(o) == o = << >>

\* _compile_patterns(): one entry per rule with a non-empty pattern, in the
\* order of self.rules, holding the compiled pattern, response, priority, id
CompilePatterns(rules) ==
  LET kept == SelectSeq(rules, LAMBDA r : r.pattern # << >>)
  IN  [i \in 1..Len(kept) |->
         [pattern |-> kept[i].pattern, pattern_is_str |-> FALSE,
          tokens |-> kept[i].tokens, wildcard |-> kept[i].wildcard,
          response |-> kept[i].response, priority |-> kept[i].priority,
          id |-> kept[i].id]]

\* the one rule that lines 97-104 put in place of a self.rules that is neither
\* a list nor a dict with a 'rules' key
default_rule ==
  [id |-> "default_001", priority |-> 1,
   response |-> "Hello! I'm your library assistant.",
   tokens |-> 1, wildcard |-> FALSE, pattern |->
     << <<<<"h", "e", "l", "l", "o">>>>, <<<<"h", "i">>>>, <<<<"h", "e", "y">>>> >>]

\* a parsed JSON value, as far as __init__ and _compile_patterns look at it
JsonList(items) == [type |-> "list", items |-> items]
JsonDict(rules) == [type |-> "dict", rules |-> rules]
JsonStr == [type |-> "str"]
JsonNull == [type |-> "null"]

\* app/data/rules.json as encode.py writes it: {"rules": [...]}
RulesFileAsWritten == [kind |-> "json", data |-> JsonDict(Some(JsonList(rules_file)))]

\* what can stand at the path rules_file: no file, a file that is not JSON,
\* or a JSON value
RulesFiles ==
  { [kind |-> "absent"],
    [kind |-> "malformed"],
    RulesFileAsWritten,
    [kind |-> "json", data |-> JsonList(rules_file)],
    [kind |-> "json", data |-> JsonDict(Some(JsonDict(Some(JsonList(rules_file)))))],
    [kind |-> "json", data |-> JsonDict(Some(JsonStr))],
    [kind |-> "json", data |-> JsonDict(Some(JsonNull))],
    [kind |-> "json", data |-> JsonDict(NoneVal)],
    [kind |-> "json", data |-> JsonStr] }

\* self._create_default_rules(), lines 25, 28 and 31: the class defines no
\* such method, so the call raises AttributeError
CreateDefaultRules == [ok |-> FALSE, error |-> "AttributeError"]

\* lines 11-31 of __init__: self.rules, or the exception that leaves __init__
LoadRules(file) ==
  IF file.kind = "absent"
  THEN \* line 31
       CreateDefaultRules
  ELSE IF file.kind = "malformed"
  THEN \* json.load raises, line 28 handles it
       CreateDefaultRules
  ELSE IF file.data.type = "dict" /\ ~IsNone(file.data.rules)
  THEN IF file.data.rules[1].type \in { "list", "dict", "str" }
       THEN [ok |-> TRUE, rules |-> file.data.rules[1]]
       ELSE \* len(self.rules) of line 19 raises TypeError, line 28 handles it
            CreateDefaultRules
  ELSE IF file.data.type = "list"
  THEN [ok |-> TRUE, rules |-> file.data]
  ELSE \* line 25 raises inside the try, line 28 handles it and raises again
       CreateDefaultRules

\* lines 88-104 of _compile_patterns: the rule dicts the loop of line 106 sees
\* (an element that is not a dict is skipped)
RulesToCompile(rules) ==
  IF rules.type = "list"
  THEN rules.items
  ELSE IF rules.type = "dict" /\ ~IsNone(rules.rules)
  THEN IF rules.rules[1].type = "list" THEN rules.rules[1].items ELSE << >>
  ELSE << default_rule >>

\* AdvancedRuleEngine(rules_file): the engine's compiled_patterns, or the
\* exception of the constructor
EngineInit(file) ==
  IF LoadRules(file).ok
  THEN [outcome |-> "constructed", file |-> file,
        compiled_patterns |-> CompilePatterns(RulesToCompile(LoadRules(file).rules))]
  ELSE [outcome |-> "raised", file |-> file, error |-> LoadRules(file).error]

\* the literals parts[p..] match at position i, any whitespace between them
RECURSIVE PartsMatchAt(_, _, _, _)
PartsMatchAt(text, i, parts, p) ==
  /\ StartsAt(text, i, parts[p])
  /\ \/ p = Len(parts)
     \/ \E j \in (i + Len(parts[p]))..Len(text) :
          /\ \A s \in (i + Len(parts[p]))..(j - 1) : IsSpace(text[s])
          /\ PartsMatchAt(text, j, parts, p + 1)

\* rule['pattern'].search(text), the pattern compiled with re.IGNORECASE
Search(pattern, text) ==
  LET t == Lower(text)
  IN  \E a \in 1..Len(pattern) : \E i \in 1..Len(t) : PartsMatchAt(t, i, pattern[a], 1)

\* Search over the rules of the file and the bounded messages, computed once
SearchMemo ==
  [r \in 1..Len(rules_file) |->
     [m \in Messages |-> Search(rules_file[r].pattern, m)]]

\* rule['pattern'].search(text) for a compiled rule of the file (line 134)
SearchCompiled(rule, text) ==
  IF \E r \in 1..Len(rules_file) : rules_file[r].id = rule.id
  THEN SearchMemo[CHOOSE r \in 1..Len(rules_file) : rules_file[r].id = rule.id][text]
  ELSE Search(rule.pattern, text)

\* one condition of _check_conditions; hour is datetime.now().hour
ConditionHolds(condition, context, hour) ==
  CASE condition.type = "time_based" ->
         condition.start_hour <= hour /\ hour < condition.end_hour
    [] condition.type = "user_type" ->
         \/ IsNone(context)
         \/ context[1].user_type = condition.required_type
    [] condition.type = "prerequisite" ->
         \/ IsNone(context)
         \/ \E h \in 1..Len(context[1].history_intents) :
              context[1].history_intents[h] = condition.required_intent
    [] OTHER -> TRUE

\* _check_conditions(conditions, context)
CheckConditions(conditions, context, hour) ==
  \A c \in 1..Len(conditions) : ConditionHolds(conditions[c], context, hour)

\* rule.get('conditions', []) of a compiled rule
ConditionsOf(rule) ==
  IF "conditions" \in DOMAIN rule THEN rule.conditions ELSE << >>

\* a Python dict or list is truthy when it is not None and not empty
Truthy(o) == ~IsNone(o) /\ Cardinality(DOMAIN o[1]) > 0

\* _calculate_rule_confidence(matched_rule, text, entities)
CalculateRuleConfidence(matched_rule, text, entities) ==
  LET \* lines 223-230: only a str pattern is boosted
      b1 == 70 + (IF matched_rule.pattern_is_str /\ matched_rule.tokens >= 3
                  THEN 10 ELSE 0)
               + (IF matched_rule.pattern_is_str /\ ~matched_rule.wildcard
                  THEN 10 ELSE 0)
      \* lines 233-235
      b2 == b1 + (IF Truthy(entities)
                  THEN Min2(Cardinality(DOMAIN entities[1]) * 5, 20) ELSE 0)
      \* lines 238-245
      matched_keywords ==
        IF "keywords" \in DOMAIN matched_rule
        THEN Cardinality({ k \in 1..Len(matched_rule.keywords) :
                             Contains(Lower(text), Lower(matched_rule.keywords[k])) })
        ELSE 0
      b3 == b2 + (IF matched_keywords > 0 THEN Min2(matched_keywords * 5, 15) ELSE 0)
  IN  Min2(Max2(b3, 0), 100)

\* a matches list that takes every rule, matching or not
MatchesUnchecked(compiled, text, context, hour) ==
  [i \in 1..Len(compiled) |->
     [rule_id |-> compiled[i].id, response_template |-> compiled[i].response,
      priority |-> compiled[i].priority,
      confidence |-> CalculateRuleConfidence(compiled[i], text, context)]]

\* the matches list built by lines 130-144 (match_groups left out: nothing
\* reads it)
Matches(compiled, text, context, hour) ==
  LET hit == SelectSeq(compiled, LAMBDA rule :
               SearchCompiled(rule, text)
                 /\ CheckConditions(ConditionsOf(rule), context, hour))
  IN  [i \in 1..Len(hit) |->
         [rule_id |-> hit[i].id, response_template |-> hit[i].response,
          priority |-> hit[i].priority,
          confidence |-> CalculateRuleConfidence(hit[i], text, context)]]

\* max(matches, key=lambda x: x['confidence']): the first maximal element
BestMatch(matches) ==
  matches[CHOOSE i \in 1..Len(matches) :
            /\ \A j \in 1..Len(matches) : matches[j].confidence <= matches[i].confidence
            /\ \A j \in 1..(i - 1) : matches[j].confidence < matches[i].confidence]

\* _fill_template(best_match): the argument is a dict, not a str, so line 289
\* returns it as it is
FillTemplateOfMatch(best_match) == best_match

\* match(text, intent, context): None, or Some(candidate)
Match(compiled, text, intent, context, hour) ==
  LET matches == Matches(compiled, text, context, hour)
  IN  IF matches # << >>
      THEN LET best_match == BestMatch(matches)
           IN  Some([type |-> "rule_based",
                     confidence |-> best_match.confidence,
                     response_data |-> FillTemplateOfMatch(best_match),
                     source |-> "rule_engine",
                     matched_rule |-> best_match.rule_id])
      ELSE NoneVal

(***************************************************************************)
(* response_generator.py: ResponseGenerator                                *)
(***************************************************************************)
\* a text is a sequence of segments: literal text, a {placeholder}, or the
\* str() of the variable that replaced a placeholder
Lit(s) == [k |-> "lit", v |-> s]
Ph(name) == [k |-> "ph", v |-> name]
Val(name) == [k |-> "val", v |-> name]

\* a space between two words of a template: what str.split() splits at
Sp == Lit(" ")

\* the type of a dict value, as far as isinstance and str.replace look at it
PyStr == [t |-> "str"]
PyInt == [t |-> "int"]
PyNone == [t |-> "NoneType"]

\* result.replace('{name}', ...): every segment Ph(name) becomes seg
ReplacePh(template, name, seg) ==
  [i \in 1..Len(template) |-> IF template[i] = Ph(name) THEN seg ELSE template[i]]

\* rule_engine.py lines 296-301: every placeholder whose key the context
\* holds with a str, int or float value is replaced by str(value)
FillContext(template, context) ==
  [i \in 1..Len(template) |->
     IF /\ template[i].k = "ph"
        /\ template[i].v \in DOMAIN context
        /\ context[template[i].v].t \in { "str", "int", "float" }
     THEN Val(template[i].v)
     ELSE template[i]]

\* re.findall(r'\{entity_(\w+)\}', result), line 307: the entity type that a
\* placeholder name asks for
EntityPlaceholders == [entity_BOOK |-> "BOOK", entity_DATE |-> "DATE"]

\* rule_engine.py lines 304-314: {entity_T} becomes the value of the first
\* entity whose type or label is T
FillEntities(template, entities) ==
  [i \in 1..Len(template) |->
     IF /\ template[i].k = "ph"
        /\ template[i].v \in DOMAIN EntityPlaceholders
        /\ \E j \in 1..Len(entities) : entities[j].type = EntityPlaceholders[template[i].v]
     THEN Val(template[i].v)
     ELSE template[i]]

\* rule_engine.py lines 317-322: {user} becomes context['user_name'] or
\* 'there'; str.replace raises TypeError for a user_name that is not a str
FillUser(template, context) ==
  IF \A i \in 1..Len(template) : template[i] # Ph("user")
  THEN [ok |-> TRUE, value |-> template]
  ELSE IF "user_name" \in DOMAIN context
  THEN IF context.user_name.t = "str"
       THEN [ok |-> TRUE, value |-> ReplacePh(template, "user", Val("user_name"))]
       ELSE [ok |-> FALSE, error |-> "TypeError"]
  ELSE [ok |-> TRUE, value |-> ReplacePh(template, "user", Lit("there"))]

\* rule_engine.py lines 325-326
FillLibrary(template) == ReplacePh(template, "library", Lit("the library"))

\* re.sub(r'\{.*?\}', '', result), line 330
IsNotPh(seg) == seg.k # "ph"
RemovePlaceholders(template) == SelectSeq(template, IsNotPh)

RECURSIVE Squeeze(_, _)
\* result.split() and ' '.join, line 333: runs of spaces become one space;
\* after_space says that nothing or a space came before
Squeeze(template, after_space) ==
  IF template = << >> THEN << >>
  ELSE IF Head(template) = Sp
  THEN IF after_space
       THEN Squeeze(Tail(template), TRUE)
       ELSE << Sp >> \o Squeeze(Tail(template), TRUE)
  ELSE << Head(template) >> \o Squeeze(Tail(template), FALSE)

\* ' '.join(result.split()), line 333
JoinSplit(template) ==
  IF Squeeze(template, TRUE) # << >> /\ Squeeze(template, TRUE)[Len(Squeeze(template, TRUE))] = Sp
  THEN SubSeq(Squeeze(template, TRUE), 1, Len(Squeeze(template, TRUE)) - 1)
  ELSE Squeeze(template, TRUE)

\* what is left to do once lines 296-322 have run
FillRest(user) ==
  IF user.ok
  THEN [outcome |-> "returned", value |-> JoinSplit(RemovePlaceholders(FillLibrary(user.value)))]
  ELSE [outcome |-> "raised", error |-> user.error]

\* AdvancedRuleEngine._fill_template(template, context, entities) for a str
\* template (rule_engine.py lines 276-335); context is None or Some(dict)
FillTemplate(template, context, entities) ==
  IF template = << >>
  THEN [outcome |-> "returned", value |-> << >>]
  ELSE IF IsNone(context)
  THEN FillRest(FillUser(FillEntities(FillContext(template, << >>), entities), << >>))
  ELSE FillRest(FillUser(FillEntities(FillContext(template, context[1]), entities), context[1]))

\* _get_default_templates(): the 'main' and 'follow_up' parts (no other part
\* is read by generate)
DefaultTemplates ==
  [greeting |->
     [main |-> << Lit("Hello! I'm the Babcock University Library Assistant. I can help you with library services. How can I assist you today?") >>,
      follow_up |-> << Lit("Try asking about library hours or borrowing books.") >>],
   book_search |->
     [main |-> << Lit("I found "), Ph("count"), Lit(" books matching your search.") >>,
      follow_up |-> << Lit("Try different keywords.") >>],
   library_hours |->
     [main |-> << Lit("Library Hours Weekdays: 8:00 AM - 10:00 PM Weekends: 10:00 AM - 8:00 PM") >>,
      follow_up |-> << >>],
   fallback |->
     [main |-> << Lit("I'm here to help with library services.") >>,
      follow_up |-> << Lit("You can ask about library hours, borrowing, or finding resources.") >>]]

\* app/data/response_templates.json as encode.py writes it ('main' and
\* 'follow_up' parts, long literals cut short)
FileTemplates ==
  [book_search |->
     [main |-> << Lit("I found "), Ph("count"), Lit(" book(s) matching your search: "),
                  Ph("book_list"), Lit(" Would you like more details about any of these books?") >>,
      follow_up |-> << Lit("You can ask me about a specific book's availability, location, or details.") >>],
   library_hours |->
     [main |-> << Lit("Library Hours Weekdays (Mon-Fri): 8:00 AM - 10:00 PM Weekends (Sat-Sun): 10:00 AM - 8:00 PM Special Hours ... Current time: "),
                  Ph("current_time") >>,
      follow_up |-> << Lit("Would you like to know about specific services or holiday schedules?") >>],
   borrowing_info |->
     [main |-> << Lit("Borrowing Policy Students: Maximum books: 5 ... Overdue Fines: N50 per day per book") >>,
      follow_up |-> << Lit("Need to know how to renew or check your due dates?") >>],
   policy_query |->
     [main |-> << Lit("Here's our library policy regarding "), Ph("topic"), Lit(": "),
                  Ph("policy_details"), Lit(" For the complete policy document, ...") >>,
      follow_up |-> << Lit("Is there a specific aspect of the policy you'd like clarified?") >>],
   research_help |->
     [main |-> << Lit("I can help you with research! Here are some resources: ...") >>,
      follow_up |-> << Lit("Would you like help with a specific database or finding articles on a topic?") >>],
   citation_help |->
     [main |-> << Lit("Citation Styles Support ... Example "), Ph("style"),
                  Lit(" citation for a book: "), Ph("example") >>,
      follow_up |-> << Lit("Need help with a specific citation or formatting question?") >>],
   general_info |->
     [main |-> << Lit("I understand you're asking about "), Ph("topic"),
                  Lit(". Here's what I can tell you: "), Ph("information"),
                  Lit(" Is this what you were looking for?") >>,
      follow_up |-> << Lit("Would you like more details or information on a related topic?") >>],
   clarification |->
     [main |-> << Lit("I want to make sure I understand correctly. Are you asking about "),
                  Ph("topic1"), Lit(" or "), Ph("topic2"), Lit("?") >>,
      follow_up |-> << Lit("Please rephrase your question or provide more details.") >>],
   fallback |->
     [main |-> << Lit("I'm not sure I fully understand your question about "), Ph("topic"),
                  Lit(". Could you provide more details or rephrase it?") >>,
      follow_up |-> << Lit("I can help you with: Finding books and articles ...") >>],
   greeting |->
     [main |-> << Lit("Hello! I'm the Babcock University Library Assistant. I can help you with: ... How can I assist you today?") >>,
      follow_up |-> << Lit("Try asking me something like: What are the library hours? ...") >>],
   error |->
     [main |-> << Lit("I apologize, but I encountered an error while processing your request. Please try again or contact library staff for assistance.") >>,
      follow_up |-> << Lit("You can try rephrasing your question or ask about a different topic.") >>]]

\* the fallback of line 258-259 for an intent without a template
NoTemplateMain ==
  << Lit("I can help you with that. Based on your query about "), Ph("topic"), Lit("...") >>

\* the reply of generate's except branch, line 193
SafeReply ==
  << Lit("I'm here to help with library services. How can I assist you today?") >>

\* the key under which lines 266-273 file an entity, or None
EntityKey(e) ==
  IF "label" \in DOMAIN e /\ "text" \in DOMAIN e THEN Some(e.label)
  ELSE IF "entity" \in DOMAIN e /\ "value" \in DOMAIN e THEN Some(e.entity)
  ELSE IF "type" \in DOMAIN e /\ "value" \in DOMAIN e THEN Some(e.type)
  ELSE NoneVal

\* the keys of entity_dict, lines 263-273
EntityDictKeys(entities) ==
  { EntityKey(entities[i])[1] : i \in { j \in 1..Len(entities) : ~IsNone(EntityKey(entities[j])) } }

\* template.format(**entity_dict), lines 276-286: every placeholder filled,
\* or on KeyError the template as it is
FormatTemplate(template, keys) ==
  IF keys = {}
  THEN template
  ELSE IF \A i \in 1..Len(template) : template[i].k = "ph" => template[i].v \in keys
       THEN [i \in 1..Len(template) |->
               IF template[i].k = "ph" THEN Val(template[i].v) ELSE template[i]]
       ELSE template

\* _generate_from_nlp(nlp_data, context)
GenerateFromNlp(tpl, nlp_data, context) ==
  LET intent == nlp_data.intent
      template == IF intent \in DOMAIN tpl THEN tpl[intent].main ELSE NoTemplateMain
      response == FormatTemplate(template, EntityDictKeys(nlp_data.entities))
      follow_up == IF intent \in DOMAIN tpl THEN tpl[intent].follow_up ELSE << >>
  IN  IF follow_up # << >>
      THEN response \o << Lit(" ") >> \o follow_up
      ELSE response

\* lines 243-245 of _generate_from_rule: every placeholder whose key is in
\* variables is replaced by str(value)
ReplaceVariables(template, variables) ==
  [i \in 1..Len(template) |->
     IF template[i].k = "ph" /\ template[i].v \in DOMAIN variables
     THEN Val(template[i].v)
     ELSE template[i]]

\* lines 248-249 of _generate_from_rule
HiUser(response, context) ==
  IF "user_name" \in DOMAIN context /\ context.user_name.t # "NoneType"
  THEN << Lit("Hi "), Val("user_name"), Lit(", ") >> \o response
  ELSE response

\* _generate_from_rule(rule_data, context): None stands for the KeyError of
\* rule_data['response_data']['template'] (line 239)
GenerateFromRule(rule_data, context) ==
  IF "template" \in DOMAIN rule_data.response_data
  THEN Some(HiUser(ReplaceVariables(rule_data.response_data.template,
                                    IF "variables" \in DOMAIN rule_data.response_data
                                    THEN rule_data.response_data.variables
                                    ELSE << >>),
                   context))
  ELSE NoneVal

ClarificationTemplates ==
  << << Lit("Could you provide more details about what you're looking for?") >>,
     << Lit("I'm not sure I understand. Could you rephrase your question?") >>,
     << Lit("Are you looking for a specific book, library policy, or research help?") >> >>

\* _generate_clarification(data, context); pick is random.choice's draw
GenerateClarification(data, context, pick) ==
  IF "unclear_entities" \in DOMAIN data /\ data.unclear_entities # << >>
  THEN << Lit("I want to help you better. Could you clarify what you mean by "),
          Val("unclear_entities"), Lit("?") >>
  ELSE ClarificationTemplates[pick]

\* Text for the sanitizer is a sequence of code points (226 is a-circumflex,
\* 8364 the euro sign, 195 A-tilde, 240 eth, 55357 and 56534 the two
\* surrogates of '\\ud83d\\udcd6').
\*
\* the dict of lines 84-106, in the order of its keys (a key written twice
\* keeps its first place and its last value)
replacements ==
  << [bad |-> <<226, 8364, 162>>, good |-> <<8226>>],
     [bad |-> <<226, 8364, 34>>, good |-> <<8211>>],
     [bad |-> <<226, 8364, 8482>>, good |-> <<39>>],
     [bad |-> <<226, 8364, 732>>, good |-> <<39>>],
     [bad |-> <<226, 8364, 339>>, good |-> <<34>>],
     [bad |-> <<226, 8364>>, good |-> <<34>>],
     [bad |-> <<195, 169>>, good |-> <<233>>],
     [bad |-> <<195, 168>>, good |-> <<232>>],
     [bad |-> <<195, 162>>, good |-> <<226>>],
     [bad |-> <<195>>, good |-> <<237>>],
     [bad |-> <<195, 177>>, good |-> <<241>>],
     [bad |-> <<195, 179>>, good |-> <<243>>],
     [bad |-> <<195, 186>>, good |-> <<250>>],
     [bad |-> <<195, 182>>, good |-> <<246>>],
     [bad |-> <<195, 188>>, good |-> <<252>>],
     [bad |-> <<195, 376>>, good |-> <<223>>],
     [bad |-> <<195, 166>>, good |-> <<230>>],
     [bad |-> <<195, 184>>, good |-> <<248>>],
     [bad |-> <<195, 165>>, good |-> <<229>>] >>

\* the dict of lines 113-116
emoji_fixes ==
  << [bad |-> <<55357, 56534>>, good |-> <<128218>>],
     [bad |-> <<55357, 56395>>, good |-> <<128075>>] >>

\* the dict of lines 377-384
fixes ==
  << [bad |-> <<240>>, good |-> <<128218>>],
     [bad |-> <<226, 162>>, good |-> <<8226>>],
     [bad |-> <<226, 8364, 162>>, good |-> <<8226>>],
     [bad |-> <<240, 169>>, good |-> <<128075>>],
     [bad |-> <<240, 172>>, good |-> <<128214>>],
     [bad |-> <<226>>, good |-> <<45>>] >>

\* the dict of lines 391-399
common_mojibake ==
  << [bad |-> <<226, 128, 153>>, good |-> <<39>>],
     [bad |-> <<226, 128, 156>>, good |-> <<34>>],
     [bad |-> <<226, 128, 157>>, good |-> <<34>>],
     [bad |-> <<226, 128, 147>>, good |-> <<8211>>],
     [bad |-> <<226, 128, 148>>, good |-> <<8212>>],
     [bad |-> <<226, 128, 162>>, good |-> <<8226>>],
     [bad |-> <<226, 128, 166>>, good |-> <<8230>>] >>

RECURSIVE Replace(_, _, _)
\* text.replace(bad, good): the occurrences of bad from the left, not overlapping
Replace(text, bad, good) ==
  IF Len(text) < Len(bad) THEN text
  ELSE IF SubSeq(text, 1, Len(bad)) = bad
  THEN good \o Replace(SubSeq(text, Len(bad) + 1, Len(text)), bad, good)
  ELSE << Head(text) >> \o Replace(Tail(text), bad, good)

RECURSIVE ApplyTable(_, _, _)
\* for bad, good in table.items(): text = text.replace(bad, good), from entry i on
ApplyTable(text, table, i) ==
  IF i > Len(table) THEN text
  ELSE ApplyTable(Replace(text, table[i].bad, table[i].good), table, i + 1)

\* _clean_unicode_content(content), lines 78-121
CleanUnicodeContent(content) ==
  IF content = << >> THEN content
  ELSE ApplyTable(ApplyTable(content, replacements, 1), emoji_fixes, 1)

\* text.encode('utf-8', errors='ignore').decode('utf-8'), line 406: a
\* surrogate code point cannot be encoded and is dropped
IsEncodable(c) == c < 55296 \/ c > 57343
EncodeIgnoreDecode(text) == SelectSeq(text, IsEncodable)

\* the sanitizer with the tables of _clean_response applied before
\* _clean_unicode_content instead of after it
CleanResponseTextFixesFirst(text) ==
  IF text = << >> THEN << >>
  ELSE EncodeIgnoreDecode(
         CleanUnicodeContent(ApplyTable(ApplyTable(text, fixes, 1), common_mojibake, 1)))

\* _clean_response(text) on a text of code points, lines 369-409
CleanResponseText(text) ==
  IF text = << >> THEN << >>
  ELSE EncodeIgnoreDecode(
         ApplyTable(ApplyTable(CleanUnicodeContent(text), fixes, 1), common_mojibake, 1))

\* _clean_response(text).  The replacements of lines 374-402 rewrite
\* mis-decoded character sequences; no literal of the templates above holds
\* one, so a non-empty text comes back as it is.
CleanResponse(text) == IF text = << >> THEN << >> ELSE text

\* generate(response_data, context, method): any exception gives SafeReply
Generate(tpl, response_data, context, method, pick) ==
  IF method = "rule_based"
  THEN LET r == GenerateFromRule(response_data, context)
       IN  IF IsNone(r) THEN SafeReply ELSE CleanResponse(r[1])
  ELSE IF method = "nlp_based"
  THEN CleanResponse(GenerateFromNlp(tpl, response_data, context))
  ELSE CleanResponse(GenerateClarification(response_data, context, pick))

(***************************************************************************)
(* dialog_manager.py: DialogueManager                                      *)
(***************************************************************************)
\* context_key = f"conv:{user_id}:{session_id}", line 35
ContextKey(user_id, session_id) ==
  <<"c", "o", "n", "v", ":">> \o user_id \o <<":">> \o session_id

ContextKeys == { ContextKey(u, s) : u \in UserIds, s \in SessionIds }

\* d.get(key, default) of a dict held as a record
Get(d, key, default) == IF key \in DOMAIN d THEN d[key] ELSE default

\* the context of a key that Redis does not hold, lines 160-165
DefaultContext ==
  [history |-> << >>, state |-> "ConversationState.GREETING",
   entities |-> << >>, user_preferences |-> << >>]

\* _get_context(context_key)
GetContext(st, context_key) ==
  IF ~IsNone(st[context_key]) THEN st[context_key][1] ELSE DefaultContext

\* a merge in which a field that the stored context has keeps its value
DictUpdateKeepCurrent(current, updates) ==
  [f \in DOMAIN current \cup DOMAIN updates |->
     IF f \in DOMAIN current THEN current[f] ELSE updates[f]]

\* current.update(updates), line 170
DictUpdate(current, updates) ==
  [f \in DOMAIN current \cup DOMAIN updates |->
     IF f \in DOMAIN updates THEN updates[f] ELSE current[f]]

\* the expiry that setex gives the key, line 173
ContextTtl == 3600

\* a write that leaves the expiry of a key that has one as it is
SetexKeepTtl(exp, context_key, t) ==
  IF exp[context_key] > t THEN exp ELSE [exp EXCEPT ![context_key] = t + ContextTtl]

\* redis_client.setex(context_key, 3600, ...) at time t, lines 171-175: the
\* key's time of expiry
Setex(exp, context_key, t) == [exp EXCEPT ![context_key] = t + ContextTtl]

\* what Redis holds at time t: a key is dropped when its expiry is reached
Expire(st, exp, t) == [k \in DOMAIN st |-> IF t >= exp[k] THEN NoneVal ELSE st[k]]

\* an update that writes the merged context under every key
UpdateContextEveryKey(st, context_key, updates) ==
  [k \in DOMAIN st |-> Some(DictUpdate(GetContext(st, context_key), updates))]

\* _update_context(context_key, updates): the store after setex (the expiry
\* of the key is Setex)
UpdateContext(st, context_key, updates) ==
  [st EXCEPT ![context_key] = Some(DictUpdate(GetContext(st, context_key), updates))]

HourSniff == << <<"h", "o", "u", "r">>, <<"t", "i", "m", "e">>, <<"o", "p", "e", "n">>, <<"c", "l", "o", "s", "e">> >>
BookSniff == << <<"b", "o", "o", "k">>, <<"f", "i", "n", "d">>, <<"s", "e", "a", "r", "c", "h">>, <<"l", "o", "o", "k">> >>
BorrowSniff == << <<"b", "o", "r", "r", "o", "w">>, <<"l", "o", "a", "n">>, <<"r", "e", "t", "u", "r", "n">>, <<"d", "u", "e">> >>

\* _get_clarification_questions(user_message, confidence): lines 336-344
\* overwrite whatever line 331 chose
GetClarificationQuestions(user_message, conf_value) ==
  LET user_lower == Lower(user_message)
  IN  IF ContainsAny(user_lower, HourSniff)
      THEN << "Library opening hours", "Weekend hours", "Holiday schedule" >>
      ELSE IF ContainsAny(user_lower, BookSniff)
      THEN << "Search by title", "Search by author", "E-book availability" >>
      ELSE IF ContainsAny(user_lower, BorrowSniff)
      THEN << "Borrowing period", "Late fees", "Renewing books" >>
      ELSE << "Library hours", "Book search", "Borrowing information" >>

RephraseResponses ==
  << << Lit("I'm not quite sure what you mean. Could you rephrase that?") >>,
     << Lit("I want to make sure I understand correctly. Could you say that differently?") >>,
     << Lit("I'm having trouble understanding. Could you provide more details?") >> >>

SuggestResponses ==
  << << Lit("I think you might be asking about: (1) Library hours, (2) Finding books, or (3) Borrowing policies. Which one interests you?") >>,
     << Lit("Could this be about: Library hours, Book search, or Borrowing information?") >>,
     << Lit("I can help with library hours, book searches, or borrowing questions. Which would you like?") >> >>

\* the three f-strings of lines 221-225 around the user's message
ConfirmResponses ==
  << << Lit("Just to make sure I understood: are you asking about '"), Val("user_message"), Lit("'?") >>,
     << Lit("I think you're asking about: "), Val("user_message"), Lit(". Is that correct?") >>,
     << Lit("Let me confirm: you want to know about '"), Val("user_message"), Lit("', right?") >> >>

\* the confidence argument of _handle_low_confidence: a number, or a dict
Num(x) == [num |-> x]
Dict(d) == [dict |-> d]

\* lines 185-192
ConfValue(confidence) ==
  IF "dict" \in DOMAIN confidence
  THEN Get(confidence.dict, "score", Get(confidence.dict, "confidence", 0))
  ELSE confidence.num

\* the bands with their boundary one hundredth lower
ConfidenceBandShifted(conf_value) ==
  IF conf_value < 29 THEN 1 ELSE IF conf_value < 49 THEN 2 ELSE 3

\* the if / elif / else of lines 195-232: which strategy a confidence gets
ConfidenceBand(conf_value) ==
  IF conf_value < 30 THEN 1 ELSE IF conf_value < 50 THEN 2 ELSE 3

\* _handle_low_confidence(user_message, confidence, context); pick is
\* random.choice's draw
HandleLowConfidence(user_message, confidence, pick) ==
  LET conf_value == ConfValue(confidence)
      band == ConfidenceBand(conf_value)
      responses == << RephraseResponses, SuggestResponses, ConfirmResponses >>
      actions == << "clarify", "suggest", "confirm" >>
      methods == << "low_confidence_clarification", "medium_confidence_suggestion",
                    "high_confidence_confirmation" >>
  IN  [response |-> responses[band][pick],
       action |-> actions[band],
       confidence |-> conf_value,
       processing_method |-> methods[band],
       requires_clarification |-> TRUE,
       suggested_follow_ups |-> GetClarificationQuestions(user_message, conf_value),
       original_message |-> user_message]

\* intent_state_map.get(intent, 'conversing'), lines 374-394
IntentState(intent) ==
  CASE intent = "greeting" -> "greeting"
    [] intent = "farewell" -> "farewell"
    [] intent = "book_search" -> "searching"
    [] intent = "library_hours" -> "informing"
    [] intent = "borrowing_info" -> "explaining"
    [] intent = "research_help" -> "assisting"
    [] intent = "unknown" -> "clarifying"
    [] OTHER -> "conversing"

\* _determine_state(user_id, session_id, intent, confidence, context)
DetermineState(intent, confidence, context) ==
  LET conversation_history == Get(context, "history", << >>)
  IN  IF Len(conversation_history) = 0 THEN "greeting"
      ELSE IF confidence < 30 THEN "clarifying"
      ELSE IF confidence < 60 THEN "confirming"
      ELSE LET last == conversation_history[Len(conversation_history)]
               last_intent == Get(last, "intent", "None")
           IN  IF last_intent = intent THEN "clarifying" ELSE IntentState(intent)

\* the history that _log_interaction leaves in its local context dict,
\* lines 454-472; the dict is not written to the store
LogInteraction(message, response, intent, context) ==
  LET h == Get(context, "conversation_history", << >>)
             \o << [role |-> "user", message |-> message],
                   [role |-> "bot", message |-> response, intent |-> intent] >>
  IN  IF Len(h) > 20 THEN SubSeq(h, Len(h) - 19, Len(h)) ELSE h

\* intent_follow_ups.get(intent, intent_follow_ups['unknown']), lines 488-528
IntentFollowUps(intent) ==
  CASE intent = "greeting" ->
         << "What are the library hours?", "How do I search for books?",
            "What are the borrowing policies?", "Can you help with research?" >>
    [] intent = "library_hours" ->
         << "What are weekend hours?", "Are you open on holidays?",
            "When is the library busiest?", "Do you have extended exam hours?" >>
    [] intent = "book_search" ->
         << "How do I search by author?", "Can I search for e-books?",
            "How do I reserve a book?", "What if the book is checked out?" >>
    [] intent = "borrowing_info" ->
         << "How long can I borrow books?", "What are the late fees?",
            "How do I renew a book?", "Can I borrow reference books?" >>
    [] intent = "research_help" ->
         << "How do I access journals?", "Can you help with citations?",
            "Are there research guides?", "How do I use databases?" >>
    [] OTHER ->
         << "Tell me about library hours", "How do I find a book?",
            "What are the borrowing rules?", "Can you help with research?" >>

\* lines 531-560 of _suggest_follow_ups: the list by intent, replaced by
\* confidence, replaced by conversation state
AdjustedSuggestions(intent, confidence, current_state) ==
  LET base == IntentFollowUps(intent)
      byConf ==
        IF confidence < 40
        THEN << "Library hours information", "Book search help",
                "Borrowing policies", "Research assistance" >>
        ELSE IF confidence > 80 /\ intent = "book_search"
        THEN << "Search for fiction books", "Find textbooks for my course",
                "Look up books by a specific author", "Check if a book is available" >>
        ELSE IF confidence > 80 /\ intent = "library_hours"
        THEN << "Today's opening hours", "Weekend schedule",
                "Special holiday hours", "Quiet study hours" >>
        ELSE base
  IN  IF current_state = "clarifying"
      THEN << "Could you rephrase?", "What specifically are you asking?",
              "Let me try to understand better..." >>
      ELSE IF current_state = "confirming"
      THEN << "Yes, that's correct", "No, let me clarify", "Partly, but also..." >>
      ELSE byConf

\* lines 563-566: a list of more than 4 is cut to a sample of 4.  No list of
\* AdjustedSuggestions is longer than 4, so random.sample is never drawn; the
\* first four stand for the sample.
LimitSuggestions(suggestions) ==
  IF Len(suggestions) > 4 THEN SubSeq(suggestions, 1, 4) ELSE suggestions

\* _suggest_follow_ups with the list by confidence and by state added to the
\* list by intent instead of replacing it, and nothing cut
SuggestFollowUpsAppending(intent, confidence, current_state) ==
  IF AdjustedSuggestions(intent, confidence, current_state) = IntentFollowUps(intent)
  THEN IntentFollowUps(intent)
  ELSE IntentFollowUps(intent) \o AdjustedSuggestions(intent, confidence, current_state)

\* _suggest_follow_ups(intent, confidence, current_state, context)
SuggestFollowUps(intent, confidence, current_state) ==
  LimitSuggestions(AdjustedSuggestions(intent, confidence, current_state))

\* a decision that takes any rule candidate above 0.6
SelectStrategyLoose(rule_response, nlp_confidence) ==
  IF ~IsNone(rule_response) /\ rule_response[1].confidence > 60
  THEN "rule_based"
  ELSE IF nlp_confidence > 70
  THEN "nlp_based"
  ELSE "clarification"

\* a decision that asks the extractor for more than 0.95
SelectStrategyStrict(rule_response, nlp_confidence) ==
  IF ~IsNone(rule_response) /\ rule_response[1].confidence > 90
  THEN "rule_based"
  ELSE IF nlp_confidence > 95
  THEN "nlp_based"
  ELSE "clarification"

\* the hybrid decision of lines 87-98
SelectStrategy(rule_response, nlp_confidence) ==
  IF ~IsNone(rule_response) /\ rule_response[1].confidence > 90
  THEN "rule_based"
  ELSE IF nlp_confidence > 70
  THEN "nlp_based"
  ELSE "clarification"

\* the 'current_time' entity appended by lines 48-51; its text is the clock's
CurrentTimeEntity == [label |-> "current_time", text |-> "now"]

\* a result confidence read under a key that no data source has
ResultConfidenceOtherKey(response_data) == Get(response_data, "score", 0)

\* response_data.get('confidence', 0.0), line 148
ResultConfidence(response_data) == Get(response_data, "confidence", 0)

\* lines 100-155 of process_message: the context update, the generated
\* response, the log and the returned dict.  fault = "setex" is Redis failing
\* in _update_context.
FinishTurn(st, context_key, message, nlp_result, context, fault, rule_response, processing_method, response_data, final_response) ==
  LET intent == nlp_result.intent
      confidence == nlp_result.confidence
      updates ==
        [last_intent |-> intent,
         last_entities |-> nlp_result.entities,
         conversation_history |-> Get(context, "history", << >>) \o << message >>,
         state |-> DetermineState(intent, confidence, context)]
  IN  IF fault = "setex"
      THEN [store |-> st, outcome |-> "raised", error |-> "ConnectionError"]
      ELSE [store |-> UpdateContext(st, context_key, updates),
            outcome |-> "returned",
            path |-> "normal",
            nlp |-> [intent |-> intent, confidence |-> confidence],
            rule_response |-> rule_response,
            logged_history |-> LogInteraction(message, final_response, intent, context),
            value |-> [response |-> final_response,
                       confidence |-> ResultConfidence(response_data),
                       processing_method |-> processing_method,
                       \* lines 143, 150-153: current_state is typer.cli's
                       \* module-level `state`
                       suggested_follow_ups |->
                         SuggestFollowUps(intent, confidence, "typer.cli.state"),
                       context_id |-> context_key]]

\* lines 119-124: the response text generated from the chosen data
RespondWith(st, tpl, context_key, message, nlp_result, context, fault, pick, rule_response, processing_method, response_data) ==
  FinishTurn(st, context_key, message, nlp_result, context, fault,
             rule_response, processing_method, response_data,
             Generate(tpl, response_data, context, processing_method, pick))

\* lines 87-98: the data the chosen strategy answers from
StrategyData(st, tpl, context_key, message, nlp_result, context, fault, pick, rule_response, processing_method) ==
  RespondWith(st, tpl, context_key, message, nlp_result, context, fault, pick,
              rule_response, processing_method,
              IF processing_method = "rule_based" THEN rule_response[1]
              ELSE IF processing_method = "nlp_based" THEN nlp_result
              ELSE HandleLowConfidence(message, Dict(context), pick))

\* lines 84-98: the rule matcher is asked, then the strategy is selected
HybridDecision(st, tpl, context_key, message, nlp_result, context, fault, pick, rule_response) ==
  StrategyData(st, tpl, context_key, message, nlp_result, context, fault, pick,
               rule_response,
               SelectStrategy(rule_response, nlp_result.confidence))

\* process_message from line 80 on: the turn has passed the 0.5 gate.  No
\* compiled rule carries conditions, so the hour of line 84's match is not read.
NormalPath(st, tpl, compiled, context_key, message, nlp_result, context, fault, pick) ==
  HybridDecision(st, tpl, context_key, message, nlp_result, context, fault, pick,
                 Match(compiled, message, nlp_result.intent, NoneVal, 12))

\* lines 41-78: the extractor's result, the 'current_time' entity and the gate
AfterProcess(st, tpl, compiled, context_key, message, context, nlp, fault, pick) ==
  IF ~nlp.ok
  THEN \* line 41 raised
       [store |-> st, outcome |-> "raised", error |-> nlp.error]
  ELSE IF nlp.value.confidence < 50
  THEN \* lines 71-78
       [store |-> st,
        outcome |-> "returned",
        path |-> "low_confidence",
        nlp |-> [intent |-> nlp.value.intent, confidence |-> nlp.value.confidence],
        value |-> HandleLowConfidence(message, Num(nlp.value.confidence), pick)]
  ELSE NormalPath(st, tpl, compiled, context_key, message,
                  [nlp.value EXCEPT !.entities = @ \o << CurrentTimeEntity >>],
                  context, fault, pick)

\* process_message(user_id, session_id, message), lines 25-155.  fault = "get"
\* is Redis failing in _get_context; pick is the draw of random.choice.  Gives
\* the store after the call and what the call returned or raised.
RunProcessMessage(st, tpl, spacy, compiled, user_id, session_id, message, fault, pick) ==
  IF fault = "get"
  THEN \* line 36: redis_client.get raises
       [store |-> st, outcome |-> "raised", error |-> "ConnectionError"]
  ELSE AfterProcess(st, tpl, compiled, ContextKey(user_id, session_id), message,
                    GetContext(st, ContextKey(user_id, session_id)),
                    ProcessMemo[message][spacy], fault, pick)

(***************************************************************************)
(* The system: one dialogue manager over one Redis store.                  *)
(***************************************************************************)
RedisFaults == { "none", "get", "setex" }

CallIds == 1..MaxCalls

Init ==
  /\ store = [k \in ContextKeys |-> NoneVal]
  /\ templates \in { DefaultTemplates, FileTemplates }
  /\ spacy_nlp \in BOOLEAN
  /\ compiled_patterns = CompilePatterns(rules_file)
  /\ turns = [k \in ContextKeys |-> [calls |-> 0, done |-> 0, last_intent |-> "None"]]
  /\ result = [outcome |-> "none"]
  /\ matchResult = [outcome |-> "none"]
  /\ lowResult = [outcome |-> "none"]
  /\ engine = [outcome |-> "constructed", file |-> RulesFileAsWritten]
  /\ callResult = [outcome |-> "none"]
  /\ now = 0
  /\ expiry = [k \in ContextKeys |-> 0]
  /\ inflight = [c \in CallIds |-> [pc |-> "idle"]]

\* the calls made so far, over all conversations
RECURSIVE CallsOver(_, _)
CallsOver(keys, t) ==
  IF keys = {} THEN 0
  ELSE LET k == CHOOSE k \in keys : TRUE
       IN  t[k].calls + CallsOver(keys \ {k}, t)

\* what one call leaves behind: the store, the call's outcome and the count
\* of turns of its conversation
Commit(context_key, call, out) ==
  /\ store' = out.store
  /\ result' = [f \in (DOMAIN out \ {"store"}) \cup {"call"} |->
                  IF f = "call" THEN call ELSE out[f]]
  /\ turns' = [turns EXCEPT ![context_key] =
                 IF out.outcome = "returned"
                 THEN [calls |-> @.calls + 1, done |-> @.done + 1,
                       last_intent |-> out.nlp.intent]
                 ELSE [@ EXCEPT !.calls = @ + 1]]
  /\ expiry' = IF out.outcome = "returned" /\ out.path = "normal"
               THEN \* the call went through _update_context, line 101
                    Setex(expiry, context_key, now)
               ELSE expiry
  /\ UNCHANGED << templates, spacy_nlp, compiled_patterns, matchResult, lowResult, engine, callResult,
                  now, inflight >>

\* one call of process_message, from entry to return or raise
ProcessMessage(user_id, session_id, message, fault, pick) ==
  /\ CallsOver(ContextKeys, turns) < MaxTurns
  /\ Commit(ContextKey(user_id, session_id),
            [user_id |-> user_id, session_id |-> session_id,
             message |-> message, fault |-> fault,
             prev_done |-> turns[ContextKey(user_id, session_id)].done,
             prev_intent |-> turns[ContextKey(user_id, session_id)].last_intent,
             prev_stored |-> store[ContextKey(user_id, session_id)]],
            RunProcessMessage(store, templates, spacy_nlp, compiled_patterns,
                              user_id, session_id, message, fault, pick))

Next ==
  \E user_id \in UserIds, session_id \in SessionIds, message \in Messages,
     fault \in RedisFaults, pick \in 1..3 :
    ProcessMessage(user_id, session_id, message, fault, pick)

Spec == Init /\ [][Next]_vars

(***************************************************************************)
(* The system, and next to it the two functions that make the follow-up    *)
(* lists called on their own with every intent, confidence and state.      *)
(***************************************************************************)
\* the intents of the classifier, and one it does not know
SuggestIntents ==
  { "greeting", "library_hours", "book_search", "borrowing_info", "research_help",
    "policy_query", "unknown", "no_such_intent" }

\* confidences in hundredths, on both sides of 0.4 and 0.8
SuggestConfidences == { 0, 30, 39, 40, 50, 80, 81, 90, 100 }

\* conversation states, and the `state` of typer.cli that line 143 passes
SuggestStates ==
  { "greeting", "searching", "clarifying", "confirming", "processing", "typer.cli.state" }

\* _suggest_follow_ups(intent, confidence, current_state, context)
SuggestCall(intent, confidence, current_state) ==
  /\ result.outcome = "none"
  /\ callResult.outcome = "none"
  /\ callResult' = [fn |-> "_suggest_follow_ups", outcome |-> "returned",
                    intent |-> intent, confidence |-> confidence,
                    current_state |-> current_state,
                    value |-> SuggestFollowUps(intent, confidence, current_state)]
  /\ UNCHANGED << store, templates, spacy_nlp, compiled_patterns, turns, result,
                  matchResult, lowResult, engine, now, expiry, inflight >>

\* _get_clarification_questions(user_message, confidence)
ClarificationCall(user_message, confidence) ==
  /\ result.outcome = "none"
  /\ callResult.outcome = "none"
  /\ callResult' = [fn |-> "_get_clarification_questions", outcome |-> "returned",
                    user_message |-> user_message, confidence |-> confidence,
                    value |-> GetClarificationQuestions(user_message, confidence)]
  /\ UNCHANGED << store, templates, spacy_nlp, compiled_patterns, turns, result,
                  matchResult, lowResult, engine, now, expiry, inflight >>

\* process_message is called as long as neither function was called on its own
NextSuggest ==
  \/ callResult.outcome = "none" /\ Next
  \/ \E intent \in SuggestIntents, confidence \in SuggestConfidences,
        current_state \in SuggestStates :
       SuggestCall(intent, confidence, current_state)
  \/ \E user_message \in Messages, confidence \in SuggestConfidences :
       ClarificationCall(user_message, confidence)

SpecSuggest == Init /\ [][NextSuggest]_vars

(***************************************************************************)
(* process_message step by step, with up to MaxCalls calls under way at    *)
(* once (the requests of a threaded or multi-worker server): a call reads  *)
(* the context on line 36, _update_context reads it again on line 169 and  *)
(* writes it on lines 171-175, and the response is generated after that,   *)
(* on line 109.  Nothing in process_message locks the context key.         *)
(***************************************************************************)
StepMessages == { MsgHello, MsgHours, MsgSchedule }

\* the context key of a call
KeyOf(call) == ContextKey(call.user_id, call.session_id)

\* what the call computes from the context it read on line 36, and the
\* store that _update_context makes of the context it read on line 169
TurnOf(call, current) ==
  AfterProcess([k \in ContextKeys |-> IF k = KeyOf(call) THEN current ELSE NoneVal],
               templates, compiled_patterns, KeyOf(call), call.message, call.context,
               ProcessMemo[call.message][spacy_nlp], "none", 1)

\* the call after lines 25-98: on its way to line 101, or over (line 41
\* raised, or lines 71-78 returned)
Entered(call, out) ==
  [pc |-> IF out.outcome = "raised" THEN "raised"
          ELSE IF out.path = "normal" THEN "loaded" ELSE "done",
   wrote |-> FALSE, generated |-> FALSE, order |-> 0] @@ call

\* the writes made so far
Writes == Cardinality({ d \in CallIds : inflight[d].pc \in { "saved", "done" } /\ inflight[d].wrote })

\* lines 25-98: the call reads the context (line 36) and decides its path
Enter(c, user_id, session_id, message) ==
  /\ inflight[c].pc = "idle"
  /\ inflight' = [inflight EXCEPT ![c] =
       Entered([user_id |-> user_id, session_id |-> session_id, message |-> message,
                context |-> GetContext(store, ContextKey(user_id, session_id))],
               TurnOf([user_id |-> user_id, session_id |-> session_id, message |-> message,
                       context |-> GetContext(store, ContextKey(user_id, session_id))],
                      store[ContextKey(user_id, session_id)]))]
  /\ UNCHANGED << store, templates, spacy_nlp, compiled_patterns, turns, result,
                  matchResult, lowResult, engine, callResult, now, expiry >>

\* line 169, in _update_context: current = self._get_context(context_key)
UpdateGet(c) ==
  /\ inflight[c].pc = "loaded"
  /\ inflight' = [inflight EXCEPT ![c] =
       [pc |-> "merging", current |-> store[KeyOf(inflight[c])]] @@ inflight[c]]
  /\ UNCHANGED << store, templates, spacy_nlp, compiled_patterns, turns, result,
                  matchResult, lowResult, engine, callResult, now, expiry >>

\* lines 170-175, in _update_context: current.update(updates) and setex
UpdateSetex(c) ==
  /\ inflight[c].pc = "merging"
  /\ store' = [store EXCEPT ![KeyOf(inflight[c])] =
                 TurnOf(inflight[c], inflight[c].current).store[KeyOf(inflight[c])]]
  /\ expiry' = Setex(expiry, KeyOf(inflight[c]), now)
  /\ inflight' = [inflight EXCEPT ![c] =
       [pc |-> "saved", wrote |-> TRUE, order |-> Writes + 1] @@ inflight[c]]
  /\ UNCHANGED << templates, spacy_nlp, compiled_patterns, turns, result,
                  matchResult, lowResult, engine, callResult, now >>

\* lines 109-155: the response is generated and the result is returned
Respond(c) ==
  /\ inflight[c].pc = "saved"
  /\ inflight' = [inflight EXCEPT ![c] =
       [pc |-> "done", generated |-> TRUE,
        value |-> TurnOf(inflight[c], inflight[c].current).value] @@ inflight[c]]
  /\ UNCHANGED << store, templates, spacy_nlp, compiled_patterns, turns, result,
                  matchResult, lowResult, engine, callResult, now, expiry >>

NextSteps ==
  \E c \in CallIds :
    \/ \E user_id \in UserIds, session_id \in SessionIds, message \in StepMessages :
         Enter(c, user_id, session_id, message)
    \/ UpdateGet(c)
    \/ UpdateSetex(c)
    \/ Respond(c)

SpecSteps == Init /\ [][NextSteps]_vars

(***************************************************************************)
(* The system with time passing between the calls: Redis drops a key when  *)
(* its expiry is reached.                                                  *)
(***************************************************************************)
\* d seconds pass
Tick(d) ==
  /\ now + d <= MaxClock
  /\ now' = now + d
  /\ store' = Expire(store, expiry, now + d)
  /\ UNCHANGED << templates, spacy_nlp, compiled_patterns, turns, result, matchResult,
                  lowResult, engine, callResult, expiry, inflight >>

\* the messages of the calls between which time passes: a greeting, a
\* question about hours, and one that takes the low-confidence return
ExpiryMessages == { MsgHello, MsgHours, MsgSchedule }

NextExpiry ==
  \/ \E user_id \in UserIds, session_id \in SessionIds, message \in ExpiryMessages,
        fault \in RedisFaults :
       ProcessMessage(user_id, session_id, message, fault, 1)
  \/ \E d \in { ContextTtl \div 2, ContextTtl } : Tick(d)

SpecExpiry == Init /\ [][NextExpiry]_vars

(***************************************************************************)
(* The rule matcher on its own: any order of up to MaxRules rules of the   *)
(* file, matched against a message and a context dict of up to MaxCtxKeys  *)
(* keys.                                                                   *)
(***************************************************************************)
\* the rules of the file that some bounded message can match
MatchPool == { r \in 1..Len(rules_file) : rules_file[r].id \in
                 { "rule_001", "rule_002", "rule_003", "rule_009", "rule_014" } }

RuleOrders ==
  { o \in UNION { [1..n -> MatchPool] : n \in 0..MaxRules } :
      \A i, j \in DOMAIN o : i # j => o[i] # o[j] }

InitMatch ==
  /\ store = [k \in ContextKeys |-> NoneVal]
  /\ templates = DefaultTemplates
  /\ spacy_nlp = TRUE
  /\ compiled_patterns \in
       { CompilePatterns([i \in DOMAIN o |-> rules_file[o[i]]]) : o \in RuleOrders }
  /\ turns = [k \in ContextKeys |-> [calls |-> 0, done |-> 0, last_intent |-> "None"]]
  /\ result = [outcome |-> "none"]
  /\ matchResult = [outcome |-> "none"]
  /\ lowResult = [outcome |-> "none"]
  /\ engine = [outcome |-> "constructed", file |-> RulesFileAsWritten]
  /\ callResult = [outcome |-> "none"]
  /\ now = 0
  /\ expiry = [k \in ContextKeys |-> 0]
  /\ inflight = [c \in CallIds |-> [pc |-> "idle"]]

\* a dict of n entries
DictOfSize(n) == [i \in 1..n |-> i]

\* one call of match(text, intent, context)
MatchCall(text, context) ==
  /\ matchResult' = [outcome |-> "returned", text |-> text, context |-> context,
                     value |-> Match(compiled_patterns, text, "None", context, 12)]
  /\ UNCHANGED << store, templates, spacy_nlp, compiled_patterns, turns, result, lowResult, engine, callResult,
                  now, expiry, inflight >>

NextMatch ==
  \E text \in Messages,
     context \in { NoneVal } \cup { Some(DictOfSize(n)) : n \in 0..MaxCtxKeys } :
    MatchCall(text, context)

SpecMatch == InitMatch /\ [][NextMatch]_vars

(***************************************************************************)
(* The rule matcher over rules files whose rules carry conditions,         *)
(* keywords and priorities: the engine is constructed from a file that     *)
(* holds a list of such rules, and match is called at some hour of the day.*)
(***************************************************************************)
\* the 'conditions' lists of a rule of the file
ConditionLists ==
  { << >>,
    << [type |-> "time_based", start_hour |-> 9, end_hour |-> 17] >>,
    << [type |-> "user_type", required_type |-> "staff"] >>,
    << [type |-> "prerequisite", required_intent |-> "book_search"] >> }

\* rule_002 and rule_003 of the file (both match MsgPolicy), with a priority,
\* with conditions, and with or without keywords
FileRules ==
  { [rules_file[r] EXCEPT !.priority = pr] @@ [conditions |-> c] @@ k :
      r \in { q \in 1..Len(rules_file) : rules_file[q].id \in { "rule_002", "rule_003" } },
      pr \in { 1, 2 }, c \in ConditionLists,
      k \in { << >>, [keywords |-> << <<"f", "i", "n", "e">> >>] } }

\* the rule lists of a file: up to MaxRules rules with different ids
FileRuleLists ==
  { l \in UNION { [1..n -> FileRules] : n \in 0..MaxRules } :
      \A i, j \in DOMAIN l : i # j => l[i].id # l[j].id }

InitRules ==
  /\ store = [k \in ContextKeys |-> NoneVal]
  /\ templates = DefaultTemplates
  /\ spacy_nlp = TRUE
  /\ engine \in { [outcome |-> "constructed",
                    file |-> [kind |-> "json", data |-> JsonList(l)]] : l \in FileRuleLists }
  /\ compiled_patterns = EngineInit(engine.file).compiled_patterns
  /\ turns = [k \in ContextKeys |-> [calls |-> 0, done |-> 0, last_intent |-> "None"]]
  /\ result = [outcome |-> "none"]
  /\ matchResult = [outcome |-> "none"]
  /\ lowResult = [outcome |-> "none"]
  /\ callResult = [outcome |-> "none"]
  /\ now = 0
  /\ expiry = [k \in ContextKeys |-> 0]
  /\ inflight = [c \in CallIds |-> [pc |-> "idle"]]

\* one call of match(text, intent, context) at hour o'clock
MatchAt(text, context, hour) ==
  /\ matchResult.outcome = "none"
  /\ matchResult' = [outcome |-> "returned", text |-> text, context |-> context,
                     hour |-> hour,
                     value |-> Match(compiled_patterns, text, "None", context, hour)]
  /\ UNCHANGED << store, templates, spacy_nlp, compiled_patterns, turns, result, lowResult,
                  engine, callResult, now, expiry, inflight >>

\* generate(response_data, context, 'rule_based') on the candidate that match
\* returned
GenerateForMatch(context) ==
  /\ matchResult.outcome = "returned"
  /\ ~IsNone(matchResult.value)
  /\ callResult.outcome = "none"
  /\ callResult' = [fn |-> "generate", method |-> "rule_based", outcome |-> "returned",
                    value |-> Generate(templates, matchResult.value[1], context,
                                       "rule_based", 1)]
  /\ UNCHANGED << store, templates, spacy_nlp, compiled_patterns, turns, result, matchResult,
                  lowResult, engine, now, expiry, inflight >>

NextRules ==
  \/ \E text \in { MsgPolicy, MsgHello },
        context \in { NoneVal,
                      Some([user_type |-> "student", history_intents |-> << >>]),
                      Some([user_type |-> "staff", history_intents |-> << "book_search" >>]) },
        hour \in { 8, 12 } :
       MatchAt(text, context, hour)
  \/ \E context \in { DefaultContext } : GenerateForMatch(context)

SpecRules == InitRules /\ [][NextRules]_vars

(***************************************************************************)
(* The rule matcher from its construction on: the rules file is in any of  *)
(* its states when AdvancedRuleEngine is constructed, and match is called  *)
(* on the engine if there is one.                                          *)
(***************************************************************************)
InitLoad ==
  /\ store = [k \in ContextKeys |-> NoneVal]
  /\ templates = DefaultTemplates
  /\ spacy_nlp = TRUE
  /\ compiled_patterns = << >>
  /\ turns = [k \in ContextKeys |-> [calls |-> 0, done |-> 0, last_intent |-> "None"]]
  /\ result = [outcome |-> "none"]
  /\ matchResult = [outcome |-> "none"]
  /\ lowResult = [outcome |-> "none"]
  /\ engine = [outcome |-> "none"]
  /\ callResult = [outcome |-> "none"]
  /\ now = 0
  /\ expiry = [k \in ContextKeys |-> 0]
  /\ inflight = [c \in CallIds |-> [pc |-> "idle"]]

\* rule_engine = AdvancedRuleEngine(rules_file), with the file in state file
ConstructEngine(file) ==
  /\ engine.outcome = "none"
  /\ engine' = [f \in DOMAIN EngineInit(file) \ {"compiled_patterns"} |-> EngineInit(file)[f]]
  /\ compiled_patterns' = IF EngineInit(file).outcome = "constructed"
                          THEN EngineInit(file).compiled_patterns
                          ELSE compiled_patterns
  /\ UNCHANGED << store, templates, spacy_nlp, turns, result, matchResult, lowResult, callResult,
                  now, expiry, inflight >>

\* match is called on the engine that was constructed
MatchOnEngine(text, context) ==
  /\ engine.outcome = "constructed"
  /\ MatchCall(text, context)

NextLoad ==
  \/ \E file \in RulesFiles : ConstructEngine(file)
  \/ \E text \in Messages,
        context \in { NoneVal } \cup { Some(DictOfSize(n)) : n \in 0..MaxCtxKeys } :
       MatchOnEngine(text, context)

SpecLoad == InitLoad /\ [][NextLoad]_vars

(***************************************************************************)
(* The rendering functions on their own: the template under rendering is   *)
(* the 'main' template of intent general_info, and each function is called *)
(* with every variable map of the sets below.                              *)
(***************************************************************************)
RenderSegments ==
  { Lit("Hello"), Sp, Ph("user"), Ph("topic"), Ph("library"), Ph("entity_BOOK") }

RenderTemplates == UNION { [1..n -> RenderSegments] : n \in 1..MaxSegs }

\* the dicts with keys among keys and values among values
DictsOver(keys, values) == UNION { [S -> values] : S \in SUBSET keys }

\* an entity as nlp_engine files it (label and text)
LabelledEntity(label) == [label |-> label, text |-> "text"]

RenderEntityLists ==
  { << >>,
    << LabelledEntity("topic") >>,
    << LabelledEntity("topic"), LabelledEntity("user") >>,
    << LabelledEntity("topic"), LabelledEntity("user"), LabelledEntity("library"),
       LabelledEntity("entity_BOOK") >> }

InitRender ==
  /\ store = [k \in ContextKeys |-> NoneVal]
  /\ templates \in { [general_info |-> [main |-> t, follow_up |-> << >>]] : t \in RenderTemplates }
  /\ spacy_nlp = TRUE
  /\ compiled_patterns = CompilePatterns(rules_file)
  /\ turns = [k \in ContextKeys |-> [calls |-> 0, done |-> 0, last_intent |-> "None"]]
  /\ result = [outcome |-> "none"]
  /\ matchResult = [outcome |-> "none"]
  /\ lowResult = [outcome |-> "none"]
  /\ engine = [outcome |-> "constructed", file |-> RulesFileAsWritten]
  /\ callResult = [outcome |-> "none"]
  /\ now = 0
  /\ expiry = [k \in ContextKeys |-> 0]
  /\ inflight = [c \in CallIds |-> [pc |-> "idle"]]

\* the names that a call gives a value for
ContextNames(context) == IF IsNone(context) THEN {} ELSE DOMAIN context[1]
EntityNames(entities) ==
  { n \in DOMAIN EntityPlaceholders :
      \E j \in 1..Len(entities) : entities[j].type = EntityPlaceholders[n] }

\* rule_engine._fill_template(template, context, entities)
FillTemplateCall(context, entities) ==
  /\ callResult.outcome = "none"
  /\ callResult' =
       [fn |-> "_fill_template", template |-> templates.general_info.main,
        variables |-> ContextNames(context) \cup EntityNames(entities)]
       @@ FillTemplate(templates.general_info.main, context, entities)
  /\ UNCHANGED << store, templates, spacy_nlp, compiled_patterns, turns, result,
                  matchResult, lowResult, engine,
                  now, expiry, inflight >>

\* generate(nlp_data, context, 'nlp_based')
GenerateNlpCall(entities) ==
  /\ callResult.outcome = "none"
  /\ callResult' =
       [fn |-> "nlp_based", template |-> templates.general_info.main,
        variables |-> EntityDictKeys(entities), outcome |-> "returned",
        value |-> Generate(templates, [intent |-> "general_info", entities |-> entities],
                           << >>, "nlp_based", 1)]
  /\ UNCHANGED << store, templates, spacy_nlp, compiled_patterns, turns, result,
                  matchResult, lowResult, engine,
                  now, expiry, inflight >>

\* generate(rule_data, context, 'rule_based')
GenerateRuleCall(variables, context) ==
  /\ callResult.outcome = "none"
  /\ callResult' =
       [fn |-> "rule_based", template |-> templates.general_info.main,
        variables |-> DOMAIN variables, outcome |-> "returned",
        value |-> Generate(templates,
                           [response_data |-> [template |-> templates.general_info.main,
                                               variables |-> variables]],
                           context, "rule_based", 1)]
  /\ UNCHANGED << store, templates, spacy_nlp, compiled_patterns, turns, result,
                  matchResult, lowResult, engine,
                  now, expiry, inflight >>

NextRender ==
  \/ \E context \in { NoneVal } \cup
                     { Some(d) : d \in DictsOver({ "topic", "user_name" }, { PyStr, PyInt, PyNone }) },
        entities \in { << >>, << [type |-> "BOOK", value |-> "text"] >> } :
       FillTemplateCall(context, entities)
  \/ \E entities \in RenderEntityLists : GenerateNlpCall(entities)
  \/ \E variables \in DictsOver({ "topic", "user" }, { PyStr, PyInt }),
        context \in DictsOver({ "user_name" }, { PyStr, PyNone }) :
       GenerateRuleCall(variables, context)

SpecRender == InitRender /\ [][NextRender]_vars

(***************************************************************************)
(* The sanitizer on its own: _clean_response is called on a text, and then *)
(* on what it returned.                                                    *)
(***************************************************************************)
\* the characters of the texts: those that the tables' keys begin or go on
\* with, and the letter a
CleanChars == { 226, 8364, 162, 195, 240, 169, 128, 55357, 56534, 97 }

CleanTexts == UNION { [1..n -> CleanChars] : n \in 0..MaxText }

\* response = self._clean_response(response), line 183
CleanCall(text) ==
  /\ callResult.outcome = "none"
  /\ callResult' = [fn |-> "_clean_response", outcome |-> "returned", passes |-> 1,
                    text |-> text, value |-> CleanResponseText(text)]
  /\ UNCHANGED << store, templates, spacy_nlp, compiled_patterns, turns, result,
                  matchResult, lowResult, engine,
                  now, expiry, inflight >>

\* _clean_response called on the text that the call before returned
CleanAgain ==
  /\ callResult.outcome = "returned"
  /\ callResult.fn = "_clean_response"
  /\ callResult.passes = 1
  /\ callResult' = [fn |-> "_clean_response", outcome |-> "returned", passes |-> 2,
                    text |-> callResult.text, once |-> callResult.value,
                    value |-> CleanResponseText(callResult.value)]
  /\ UNCHANGED << store, templates, spacy_nlp, compiled_patterns, turns, result,
                  matchResult, lowResult, engine,
                  now, expiry, inflight >>

NextClean ==
  \/ \E text \in CleanTexts : CleanCall(text)
  \/ CleanAgain

SpecClean == Init /\ [][NextClean]_vars

(***************************************************************************)
(* The low-confidence handler on its own, for any confidence in [0, 1].    *)
(***************************************************************************)
\* one call of _handle_low_confidence(user_message, confidence)
HandleLowCall(user_message, confidence, pick) ==
  /\ lowResult.outcome = "none"
  /\ lowResult' = [outcome |-> "returned", confidence |-> confidence,
                   value |-> HandleLowConfidence(user_message, Num(confidence), pick)]
  /\ UNCHANGED << store, templates, spacy_nlp, compiled_patterns, turns, result, matchResult, engine, callResult,
                  now, expiry, inflight >>

NextLow ==
  \E user_message \in Messages, confidence \in 0..100, pick \in 1..3 :
    HandleLowCall(user_message, confidence, pick)

SpecLow == Init /\ [][NextLow]_vars

(***************************************************************************)
(* The extractor on its own: process and _classify_intent_simple are       *)
(* called on texts made of words, beside the calls of process_message.     *)
(***************************************************************************)
\* the words of the texts: override substrings, intent keywords and a word
\* that is neither
ProcessWords ==
  { <<"r", "e", "n", "e", "w">>,
    <<"l", "i", "b", "r", "a", "r", "y", " ", "h", "o", "u", "r", "s">>,
    <<"c", "l", "o", "s", "e">>,
    <<"b", "o", "o", "k">>,
    <<"a", "v", "a", "i", "l", "a", "b", "l", "e">>,
    <<"f", "i", "n", "e">>,
    <<"l", "i", "m", "i", "t">>,
    <<"z", "z", "z">> }

\* " ".join(ws)
RECURSIVE JoinWords(_)
JoinWords(ws) ==
  IF ws = << >> THEN << >>
  ELSE IF Len(ws) = 1 THEN ws[1]
  ELSE ws[1] \o <<" ">> \o JoinWords(Tail(ws))

\* the texts of up to MaxWords words
ProcessTexts ==
  { JoinWords(ws) : ws \in UNION { [1..n -> ProcessWords] : n \in 0..MaxWords } }

\* one call of process(text)
ProcessCall(text) ==
  /\ result.outcome = "none"
  /\ callResult.outcome = "none"
  /\ callResult' =
       LET r == Process(text, spacy_nlp)
       IN  IF r.ok
           THEN [fn |-> "process", text |-> text, outcome |-> "returned", value |-> r.value]
           ELSE [fn |-> "process", text |-> text, outcome |-> "raised", error |-> r.error]
  /\ UNCHANGED << store, templates, spacy_nlp, compiled_patterns, turns, result,
                  matchResult, lowResult, engine, now, expiry, inflight >>

\* one call of _classify_intent_simple(text)
ClassifyCall(text) ==
  /\ result.outcome = "none"
  /\ callResult.outcome = "none"
  /\ callResult' = [fn |-> "_classify_intent_simple", text |-> text,
                    outcome |-> "returned", value |-> ClassifyIntentSimple(text)]
  /\ UNCHANGED << store, templates, spacy_nlp, compiled_patterns, turns, result,
                  matchResult, lowResult, engine, now, expiry, inflight >>

NextProcess ==
  \/ \E text \in ProcessTexts : ProcessCall(text)
  \/ \E text \in ProcessTexts : ClassifyCall(text)
  \/ callResult.outcome = "none" /\ Next

SpecProcess == Init /\ [][NextProcess]_vars

(***************************************************************************)
(* Properties                                                              *)
(***************************************************************************)
Returned == result.outcome = "returned"

\* the call was the first one to find no stored context under its key
FreshContext == IsNone(result.call.prev_stored)

\* the context Redis holds for the conversation of the last call
StoredContext == store[ContextKey(result.call.user_id, result.call.session_id)]

\* C1: process_message never raises; when a component or the store fails it
\* returns the safe default reply with confidence 0.0 and method "error".
C1_NeverRaises ==
  result.outcome # "none" =>
    /\ result.outcome = "returned"
    /\ (result.call.fault # "none" \/ ~spacy_nlp) =>
         /\ result.value.response = SafeReply
         /\ result.value.confidence = 0
         /\ result.value.processing_method = "error"

\* the processing methods a result can name
ProcessingMethods ==
  { "rule_based", "nlp_based", "clarification", "low_confidence_clarification",
    "medium_confidence_suggestion", "high_confidence_confirmation" }

\* C2: for every non-empty message, after any earlier turns, a returned result
\* has a confidence in [0, 1] and a processing_method of one finite set.
C2_ConfidenceAndMethodInRange ==
  (Returned /\ result.call.message # << >>) =>
    /\ result.value.confidence \in 0..100
    /\ result.value.processing_method \in ProcessingMethods

\* a second turn whose keyword score of 1.2 came back as 0.95
C2_Witness ==
  /\ Returned
  /\ result.call.prev_done = 1
  /\ result.call.message = MsgPolicy
  /\ result.value.confidence = 95
  /\ result.value.processing_method = "nlp_based"

\* C3: every returned result carries response, confidence, processing_method,
\* suggested_follow_ups and context_id, and context_id names the conversation.
C3_AllFiveFields ==
  Returned =>
    /\ { "response", "confidence", "processing_method", "suggested_follow_ups",
         "context_id" } \subseteq DOMAIN result.value
    /\ result.value.context_id =
         ContextKey(result.call.user_id, result.call.session_id)

\* C4: in the low-confidence handler a confidence below 0.3 gives action
\* clarify and a rephrase response, a confidence in [0.3, 0.5) gives action
\* suggest and a topic suggestion, and requires_clarification is always true.
C4_ConfidenceBanding ==
  lowResult.outcome = "returned" =>
    /\ lowResult.value.requires_clarification = TRUE
    /\ lowResult.confidence < 30 =>
         /\ lowResult.value.action = "clarify"
         /\ \E k \in 1..Len(RephraseResponses) :
              lowResult.value.response = RephraseResponses[k]
    /\ (lowResult.confidence >= 30 /\ lowResult.confidence < 50) =>
         /\ lowResult.value.action = "suggest"
         /\ \E k \in 1..Len(SuggestResponses) :
              lowResult.value.response = SuggestResponses[k]

\* the handler was called with 0.29
C4_Witness ==
  /\ lowResult.outcome = "returned"
  /\ lowResult.confidence = 29
  /\ lowResult.value.action = "clarify"

\* C5: a message without intent keyword or override substring, on a fresh
\* context, gets an extractor confidence below 0.3 and a low-confidence result
\* with requires_clarification true and one of the 3 rephrase prompts.
C5_NonsenseGetsRephrasePrompt ==
  (result.outcome # "none" /\ result.call.fault = "none" /\ spacy_nlp
     /\ result.call.message = MsgNonsense /\ FreshContext) =>
    /\ Returned
    /\ result.nlp.confidence < 30
    /\ result.path = "low_confidence"
    /\ result.value.requires_clarification = TRUE
    /\ \E k \in 1..Len(RephraseResponses) :
         result.value.response = RephraseResponses[k]

\* text is template with each placeholder replaced by its variable, possibly
\* followed by more text
RendersTemplate(text, template) ==
  /\ Len(text) >= Len(template)
  /\ \A i \in 1..Len(template) :
       IF template[i].k = "lit"
       THEN text[i] = template[i]
       ELSE text[i] = Val(template[i].v)

\* C6: a message containing "library hour", on a fresh context, is classified
\* library_hours with confidence at least 0.85, is answered by the nlp_based
\* strategy, and the response is the library_hours template text.
C6_LibraryHoursScenario ==
  (Returned /\ result.call.message = MsgHours /\ FreshContext) =>
    /\ result.nlp.intent = "library_hours"
    /\ result.nlp.confidence >= 85
    /\ result.value.processing_method = "nlp_based"
    /\ RendersTemplate(result.value.response, templates["library_hours"].main)

\* the library-hours question answered on a fresh context
C6_Witness ==
  /\ Returned
  /\ result.call.message = MsgHours
  /\ FreshContext
  /\ result.value.processing_method = "nlp_based"
  /\ result.nlp.intent = "library_hours"

\* C7: on every turn with extractor confidence at least 0.5 the strategy is
\* rule_based if the rule matcher returned a candidate with confidence above
\* 0.9, otherwise nlp_based if the extractor confidence is above 0.7,
\* otherwise clarification.
C7_StrategyOrder ==
  (Returned /\ result.nlp.confidence >= 50) =>
    /\ result.path = "normal"
    /\ result.value.processing_method =
         IF ~IsNone(result.rule_response) /\ result.rule_response[1].confidence > 90
         THEN "rule_based"
         ELSE IF result.nlp.confidence > 70
         THEN "nlp_based"
         ELSE "clarification"

\* a turn where the rule matcher had a candidate, of confidence 0.7, and the
\* extractor's 0.9 decided
C7_Witness ==
  /\ Returned
  /\ result.path = "normal"
  /\ ~IsNone(result.rule_response)
  /\ result.rule_response[1].confidence = 70
  /\ result.nlp.confidence = 90
  /\ result.value.processing_method = "nlp_based"

\* the last n elements of s, or all of s
LastN(s, n) == IF Len(s) <= n THEN s ELSE SubSeq(s, Len(s) - n + 1, Len(s))

\* the history stored for the conversation before the last call
StoredHistoryBefore ==
  IF FreshContext THEN << >>
  ELSE Get(result.call.prev_stored[1], "conversation_history", << >>)

\* C8: each processed turn appends its message to the stored conversation
\* history of its key, and only the 20 most recent entries are kept.
C8_HistoryAppendedAndCapped ==
  (Returned /\ result.path = "normal") =>
    /\ ~IsNone(StoredContext)
    /\ StoredContext[1].conversation_history =
         LastN(StoredHistoryBefore \o << result.call.message >>, 20)

\* C9: when two consecutive turns of one conversation have the same intent,
\* the state stored after the second turn is clarifying.
C9_RepeatedIntentClarifies ==
  (Returned /\ result.path = "normal" /\ ~FreshContext
     /\ result.call.prev_intent = result.nlp.intent) =>
    /\ ~IsNone(StoredContext)
    /\ StoredContext[1].state = "clarifying"

\* the rules of compiled_patterns that match text and pass their conditions
EligibleRules(text, context) ==
  { i \in 1..Len(compiled_patterns) :
      /\ SearchCompiled(compiled_patterns[i], text)
      /\ CheckConditions(ConditionsOf(compiled_patterns[i]), context, 12) }

FileAbsentOrMalformed ==
  engine.outcome # "none" /\ engine.file.kind \in { "absent", "malformed" }

\* C11: with the rules file absent or malformed the constructor does not
\* fail, the engine holds a default rule set with a greeting rule, and match
\* returns a candidate for "hello".
C11_DefaultRulesOnMissingFile ==
  FileAbsentOrMalformed =>
    /\ engine.outcome = "constructed"
    /\ \E i \in 1..Len(compiled_patterns) : SearchCompiled(compiled_patterns[i], MsgHello)
    /\ (matchResult.outcome = "returned" /\ matchResult.text = MsgHello) =>
         ~IsNone(matchResult.value)


\* the variable that fills placeholder {name}: {user} is filled from user_name
VariableOf(name) == IF name = "user" THEN "user_name" ELSE name

\* the placeholders of the rendered template that the call has no variable for
MissingPlaceholders ==
  { callResult.template[i].v :
      i \in { j \in 1..Len(callResult.template) :
                /\ callResult.template[j].k = "ph"
                /\ VariableOf(callResult.template[j].v) \notin callResult.variables } }

\* how often placeholder {name} stands in text
Occurrences(name, text) == Cardinality({ i \in 1..Len(text) : text[i] = Ph(name) })

\* C12: rendering a template that holds a placeholder without a variable
\* returns (it does not raise), and in the text returned each such
\* placeholder stands as often as in the template, or not at all.
C12_MissingPlaceholderNeverRaises ==
  (callResult.outcome # "none" /\ MissingPlaceholders # {}) =>
    /\ callResult.outcome = "returned"
    /\ \A name \in MissingPlaceholders :
         Occurrences(name, callResult.value) \in { 0, Occurrences(name, callResult.template) }


\* C13: sanitizing a sanitized text gives the same text as sanitizing once.
C13_SanitizeIdempotent ==
  (callResult.outcome = "returned" /\ callResult.fn = "_clean_response"
     /\ callResult.passes = 2) =>
    callResult.value = callResult.once

\* "A-tilde, cent" was sanitized to "-" (by way of a-circumflex), and that
\* was sanitized again
C13_Witness ==
  /\ callResult.outcome = "returned"
  /\ callResult.fn = "_clean_response"
  /\ callResult.passes = 2
  /\ callResult.text = << 195, 162 >>
  /\ callResult.once = << 45 >>


\* the call that the step made was for context key k
CalledFor(k) == turns'[k].calls > turns[k].calls

\* C14: a call that writes the context of a key sets the key's expiry to one
\* hour after the write, whatever it was before; a key whose expiry is
\* reached is not held any more; and a call for such a key starts from no
\* stored context.
C14_SlidingExpiry ==
  [][\A k \in ContextKeys :
       /\ (CalledFor(k) /\ result'.outcome = "returned" /\ result'.path = "normal") =>
            (expiry'[k] = now + ContextTtl /\ ~IsNone(store'[k]))
       /\ (CalledFor(k) /\ now >= expiry[k]) => IsNone(result'.call.prev_stored)
       /\ (now' >= expiry'[k]) => IsNone(store'[k])]_vars

\* a context was written, an hour passed, and the next call for the key
\* found no stored context and wrote a new one
C14_Witness ==
  \E k \in ContextKeys :
    /\ now >= ContextTtl
    /\ turns[k].done = 2
    /\ turns[k].calls = 2
    /\ result.outcome = "returned"
    /\ result.path = "normal"
    /\ result.call.prev_intent = "greeting"
    /\ IsNone(result.call.prev_stored)
    /\ expiry[k] = now + ContextTtl


\* C15: the suggested_follow_ups of a result of process_message, and the
\* list of either function that makes them, hold at most 4 items.
C15_AtMostFourFollowUps ==
  /\ (result.outcome = "returned") => Len(result.value.suggested_follow_ups) <= 4
  /\ (callResult.outcome = "returned") => Len(callResult.value) <= 4

\* process_message returned by its normal path with a list of exactly 4
C15_Witness ==
  /\ result.outcome = "returned"
  /\ result.path = "normal"
  /\ Len(result.value.suggested_follow_ups) = 4


\* C16: a call during which the context store cannot be reached (the get of
\* line 36 or the setex of line 101 fails) still returns a result.
C16_StoreUnreachableStillReturns ==
  (result.outcome # "none" /\ result.call.fault \in { "get", "setex" }) =>
    result.outcome = "returned"


\* the calls that have written the context of key k
Writers(k) ==
  { c \in CallIds : inflight[c].pc \in { "saved", "done" } /\ inflight[c].wrote
                      /\ KeyOf(inflight[c]) = k }

\* the call that wrote the context of key k last
LastWriter(k) == CHOOSE c \in Writers(k) : \A d \in Writers(k) : inflight[d].order <= inflight[c].order

\* the stored context of key k carries the update of call c and of no other
ReflectsOnly(k, c) ==
  /\ ~IsNone(store[k])
  /\ store[k][1].conversation_history = << inflight[c].message >>
  /\ store[k][1].last_intent = ProcessMemo[inflight[c].message][spacy_nlp].value.intent

\* C17: nothing orders the calls for one context key, and the stored context
\* carries the update of the call that wrote last and of no other call,
\* also when the calls read and wrote in turn.
C17_LastWriteWins ==
  \A k \in ContextKeys : Writers(k) # {} => ReflectsOnly(k, LastWriter(k))

\* two calls for one key with different messages: both read the context
\* when nothing was stored, both wrote, both are over, and the stored
\* context carries the message of one of them only
C17_Witness ==
  \E k \in ContextKeys :
    /\ Writers(k) = CallIds
    /\ \A c \in CallIds : inflight[c].pc = "done" /\ IsNone(inflight[c].current)
    /\ inflight[1].message # inflight[2].message
    /\ \E c \in CallIds : store[k][1].conversation_history = << inflight[c].message >>

\* a call that has written the context has generated its response
HasWritten(c) == inflight[c].pc \in { "saved", "done" } /\ inflight[c].wrote

\* C18: the context of a turn is in the store only when the response of the
\* turn has been generated.
C18_WriteOnlyAfterGeneration ==
  \A c \in CallIds : HasWritten(c) => inflight[c].generated


\* C19: when the first call of a conversation to return has returned, the
\* store holds a context under the conversation's key.
C19_ContextCreatedOnFirstMessage ==
  (Returned /\ result.call.prev_done = 0) => ~IsNone(StoredContext)

\* the state that a turn after the first is to store
LaterTurnState(intent, confidence) ==
  IF confidence < 30 THEN "clarifying"
  ELSE IF confidence < 60 THEN "confirming"
  ELSE IntentState(intent)

\* C20: the state that a turn stores is greeting on the first message of the
\* conversation, and on a later turn clarifying below 0.3, confirming below
\* 0.6, and else the entry of the intent in the table.
C20_StateByConfidenceAndIntent ==
  (Returned /\ result.path = "normal" /\ ~IsNone(StoredContext)) =>
    StoredContext[1].state =
      IF result.call.prev_done = 0
      THEN "greeting"
      ELSE LaterTurnState(result.nlp.intent, result.nlp.confidence)


\* the rules as the engine loaded them from its file
LoadedRules == engine.file.data.items

\* match was called at an hour of the day and returned
MatchedAt == matchResult.outcome = "returned" /\ "hour" \in DOMAIN matchResult

\* rule i of the file matches the text of the call and one of its conditions fails
MatchesButFails(i) ==
  /\ SearchCompiled(LoadedRules[i], matchResult.text)
  /\ ~CheckConditions(LoadedRules[i].conditions, matchResult.context, matchResult.hour)

\* C21: a rule whose pattern matches and one of whose conditions fails is
\* not the rule that match returns.
C21_FailingConditionExcluded ==
  MatchedAt =>
    \A i \in 1..Len(LoadedRules) :
      MatchesButFails(i) =>
        (IsNone(matchResult.value) \/ matchResult.value[1].matched_rule # LoadedRules[i].id)


\* the rule of the file that match returned
ReturnedRule ==
  LoadedRules[CHOOSE i \in 1..Len(LoadedRules) :
                LoadedRules[i].id = matchResult.value[1].matched_rule]

\* the confidence of a rule of the file by its pattern string, the entities
\* handed to the confidence function and its keywords found in the text
StatedConfidence(rule, text, entities) ==
  LET pattern == 70 + (IF rule.tokens >= 3 THEN 10 ELSE 0)
                    + (IF ~rule.wildcard THEN 10 ELSE 0)
      entity == IF Truthy(entities)
                THEN Min2(Cardinality(DOMAIN entities[1]) * 5, 20) ELSE 0
      found == IF "keywords" \in DOMAIN rule
               THEN Cardinality({ k \in 1..Len(rule.keywords) :
                                    Contains(Lower(text), Lower(rule.keywords[k])) })
               ELSE 0
  IN  Min2(Max2(pattern + entity + Min2(found * 5, 15), 0), 100)

\* C22: the confidence match returns for a rule of the file is 0.7, plus 0.1
\* for a pattern of three tokens or more, plus 0.1 for a pattern without a
\* wildcard, plus 0.05 per entity up to 0.2, plus 0.05 per keyword found in
\* the text up to 0.15, clamped to [0, 1].
C22_ConfidenceFormula ==
  (MatchedAt /\ ~IsNone(matchResult.value)) =>
    matchResult.value[1].confidence
      = StatedConfidence(ReturnedRule, matchResult.text, matchResult.context)


\* the rules of the file that are eligible for the call: the pattern matches
\* and every condition holds
EligibleAt ==
  { i \in 1..Len(LoadedRules) :
      /\ SearchCompiled(LoadedRules[i], matchResult.text)
      /\ CheckConditions(LoadedRules[i].conditions, matchResult.context, matchResult.hour) }

\* the confidence match computes for rule i of the file
ConfidenceAt(i) ==
  CalculateRuleConfidence(CompilePatterns(<< LoadedRules[i] >>)[1], matchResult.text,
                          matchResult.context)

\* the eligible rules of highest confidence
HighestAt == { i \in EligibleAt : \A j \in EligibleAt : ConfidenceAt(j) <= ConfidenceAt(i) }

\* the first of them in priority order, declaration order between equal priorities
FirstInPriorityOrder ==
  CHOOSE i \in HighestAt :
    \A j \in HighestAt :
      \/ LoadedRules[j].priority < LoadedRules[i].priority
      \/ LoadedRules[j].priority = LoadedRules[i].priority /\ i <= j

\* C23: match returns None when no rule is eligible; among the eligible rules
\* of highest confidence it returns the first in priority order (higher
\* priority first), declaration order deciding between equal priorities.
C23_TieByPriorityThenDeclaration ==
  MatchedAt =>
    IF EligibleAt = { }
    THEN IsNone(matchResult.value)
    ELSE /\ ~IsNone(matchResult.value)
         /\ matchResult.value[1].matched_rule = LoadedRules[FirstInPriorityOrder].id


\* C24: generate, given the candidate match returned and the rule_based
\* strategy, returns the response template of the matched rule (placeholders
\* substituted from the variables, unresolved ones removed).
C24_RuleResponseRendered ==
  (MatchedAt /\ callResult.outcome = "returned" /\ callResult.fn = "generate") =>
    callResult.value = << Lit(ReturnedRule.response) >>


\* C25: the confidence of every result is the confidence of the data the
\* response was generated from: the rule candidate's for rule_based, the
\* extractor's for nlp_based, and the clarification handler's, which is the
\* extractor's confidence of the turn, for clarification.
C25_ConfidenceOfDataSource ==
  Returned =>
    result.value.confidence =
      IF result.path = "normal" /\ result.value.processing_method = "rule_based"
      THEN result.rule_response[1].confidence
      ELSE result.nlp.confidence

\* a turn answered from the extractor's data while the rule matcher had a
\* candidate of another confidence
C25_Witness ==
  /\ Returned
  /\ result.path = "normal"
  /\ result.value.processing_method = "nlp_based"
  /\ ~IsNone(result.rule_response)
  /\ result.rule_response[1].confidence # result.nlp.confidence
  /\ result.value.confidence = result.nlp.confidence


\* the state _determine_state gives the turn when the history it reads holds
\* the turn before: greeting on the first turn of the conversation
StateWithHistory ==
  DetermineState(result.nlp.intent, result.nlp.confidence,
                 IF result.call.prev_done = 0
                 THEN [history |-> << >>]
                 ELSE [history |-> << [intent |-> result.call.prev_intent] >>])

RECURSIVE SplitFrom(_, _, _)
SplitFrom(text, i, word) ==
  IF i > Len(text)
  THEN IF word = << >> THEN << >> ELSE << word >>
  ELSE IF IsSpace(text[i])
  THEN (IF word = << >> THEN << >> ELSE << word >>) \o SplitFrom(text, i + 1, << >>)
  ELSE SplitFrom(text, i + 1, word \o << text[i] >>)

\* C27: when the linguistic model is not loaded, process returns a result for
\* every text without raising, with the entities of the custom patterns and
\* the whitespace split of the text as tokens.
C27_ProcessWithoutModel ==
  (callResult.outcome # "none" /\ callResult.fn = "process" /\ ~spacy_nlp) =>
    /\ callResult.outcome = "returned"
    /\ callResult.value.entities = ExtractCustomEntities(Strip(Lower(callResult.text)), 1)
    /\ "tokens" \in DOMAIN callResult.value
    /\ callResult.value.tokens = SplitFrom(Strip(Lower(callResult.text)), 1, << >>)


\* _classify_intent_simple was called on a text that contains "renew"
ClassifiedRenew ==
  /\ callResult.outcome = "returned"
  /\ callResult.fn = "_classify_intent_simple"
  /\ Contains(Lower(callResult.text), <<"r", "e", "n", "e", "w">>)

\* an override that returns before the one for "renew" is reached: "library
\* hour", or "available" beside one of "book", "find", "search"
ReturnsBeforeRenew ==
  \/ Contains(Lower(callResult.text), <<"l", "i", "b", "r", "a", "r", "y", " ", "h", "o", "u", "r">>)
  \/ /\ ContainsAny(Lower(callResult.text), BookWords)
     /\ Contains(Lower(callResult.text), <<"a", "v", "a", "i", "l", "a", "b", "l", "e">>)

\* C28 as stated: every text that contains "renew" is classified book_renewal
\* with confidence 0.9, whatever keywords or override substrings it contains.
C28_RenewAlwaysRenewal ==
  ClassifiedRenew => callResult.value = << "book_renewal", 90 >>

\* C28: a text that contains "renew" is classified book_renewal with
\* confidence 0.9, whatever keywords or override words it contains, unless it
\* contains "library hour", or "available" beside "book", "find" or "search",
\* whose overrides return first.
C28_RenewUnlessEarlierOverride ==
  (ClassifiedRenew /\ ~ReturnsBeforeRenew) => callResult.value = << "book_renewal", 90 >>

\* "renew" beside an hour word and a keyword of another intent
C28_Witness ==
  /\ ClassifiedRenew
  /\ ContainsAny(Lower(callResult.text), HourWords)
  /\ Contains(Lower(callResult.text), <<"f", "i", "n", "e">>)
  /\ callResult.value = << "book_renewal", 90 >>


\* the confidences of the keyword classifier, in hundredths
ClassifierConfidences == { 0, 30, 40, 80, 85, 90, 95 }

\* C29: the keyword classifier, called directly or by process, returns a
\* confidence of 0.0, 0.3, 0.4, 0.8, 0.85, 0.9 or 0.95 only; so every turn of
\* process_message that passes the 0.5 gate has an extractor confidence above
\* 0.7 and is not answered by the clarification strategy.
C29_NoConfidenceBetweenGateAndNlp ==
  /\ (callResult.outcome = "returned" /\ callResult.fn = "_classify_intent_simple") =>
       callResult.value[2] \in ClassifierConfidences
  /\ (callResult.outcome = "returned" /\ callResult.fn = "process") =>
       callResult.value.confidence \in ClassifierConfidences
  /\ (Returned /\ result.nlp.confidence >= 50) =>
       /\ result.nlp.confidence > 70
       /\ result.path = "normal"
       /\ result.value.processing_method # "clarification"

\* a turn that passed the gate with the lowest confidence above it, 0.8
C29_Witness ==
  /\ Returned
  /\ result.path = "normal"
  /\ result.nlp.confidence = 80
  /\ result.value.processing_method = "nlp_based"


\* the call of the step, run on a store that holds the context of key c only
AloneInStore(c) ==
  RunProcessMessage([k \in ContextKeys |-> IF k = c THEN store[k] ELSE NoneVal],
                    templates, spacy_nlp, compiled_patterns,
                    result'.call.user_id, result'.call.session_id,
                    result'.call.message, result'.call.fault, 1)

\* C30: a call of process_message for one conversation leaves the stored
\* context and the expiry of every other key as they were, and what it
\* returns and stores does not depend on what the other keys hold.
C30_OtherKeysUntouched ==
  [][\A c \in ContextKeys :
       CalledFor(c) =>
         /\ c = ContextKey(result'.call.user_id, result'.call.session_id)
         /\ \A k \in ContextKeys \ { c } :
              store'[k] = store[k] /\ expiry'[k] = expiry[k]
         /\ AloneInStore(c).outcome = result'.outcome
         /\ AloneInStore(c).store[c] = store'[c]
         /\ (result'.outcome = "returned") => AloneInStore(c).value = result'.value]_vars

\* a call has just written its context while another conversation holds a
\* context written half an hour earlier
C30_Witness ==
  \E k \in ContextKeys :
    /\ Returned
    /\ result.path = "normal"
    /\ k # ContextKey(result.call.user_id, result.call.session_id)
    /\ ~IsNone(store[k])
    /\ ~IsNone(StoredContext)
    /\ store[k] # StoredContext
    /\ now < expiry[k]
    /\ expiry[ContextKey(result.call.user_id, result.call.session_id)] = now + ContextTtl
    /\ expiry[k] = now + ContextTtl \div 2

=============================================================================
